---- MODULE Spec2Model ----
(***************************************************************************)
(* Model of the audio pipeline of eigenplayer (src/src/audio.rs and        *)
(* src/src/eq.rs): the AudioBackend facade, the decoder thread it spawns   *)
(* per loaded track, the ring buffer between decoder and output callback,  *)
(* the output callback, and the biquad equalizer the callback applies.     *)
(*                                                                         *)
(* Numbers.  Samples, filter coefficients and filter registers are f32 in  *)
(* the code and exact integers here.  The volume and the values the        *)
(* callback writes are f32 that may be non-finite (the constructor and     *)
(* set_volume accept any f32), so they are records: FNum(n) stands for the *)
(* finite value n / VolDenom, and NaN, PInf, NInf for the IEEE specials.   *)
(***************************************************************************)
EXTENDS Integers, Sequences, FiniteSets, TLC

\* ------------------------------------------------------------------ bounds
\* Number of successful load_track calls (track sessions) explored.
MaxLoads == 2
\* The ring_buffer_size passed to the constructor.
RingSize == 1
\* Number of samples one track decodes to, at most.
MaxSamples == 2
\* Number of slots of the buffer the device hands to the callback.
CbLen == 2
\* Resolution of the volume scalar: FNum(n) is n / VolDenom.
VolDenom == 2
\* Number of bands of an equalizer, at most.
MaxBands == 2
\* Number of samples an equalizer on its own is made to process.
MaxProcess == 2
\* Most band specs of a configured band list.
MaxSpecs == 1
\* Most callbacks subscribed at a time, to properties and to events together.
MaxSubs == 3
\* Largest id of a playlist row, and largest position of a track row.
MaxPlaylistId == 2
MaxPosition == 2

\* ------------------------------------------------------------ f32 values
FNum(n) == [k |-> "num", n |-> n]
NaN == [k |-> "nan", n |-> 0]
PInf == [k |-> "inf", n |-> 1]
NInf == [k |-> "inf", n |-> -1]

\* 0.0 and 1.0 on the volume scale.
FZero == FNum(0)
FOne == FNum(VolDenom)

IsFinite(a) == a.k = "num"

\* IEEE a < b: false whenever an operand is NaN.
FLt(a, b) ==
    IF a.k = "nan" \/ b.k = "nan" THEN FALSE
    ELSE IF a.k = "inf" THEN a.n < 0 /\ ~(b.k = "inf" /\ b.n < 0)
    ELSE IF b.k = "inf" THEN b.n > 0
    ELSE a.n < b.n

Sign(n) == IF n > 0 THEN 1 ELSE IF n < 0 THEN -1 ELSE 0

\* The product s * v of a finite sample s (an integer) and an f32 v.
FScale(s, v) ==
    IF v.k = "nan" THEN NaN
    ELSE IF v.k = "inf" THEN (IF s = 0 THEN NaN ELSE [k |-> "inf", n |-> Sign(s) * v.n])
    ELSE FNum(s * v.n)

\* f32::clamp(lo, hi) without its upper bound (a faulty variant of Clamp).
ClampNoUpper(v, lo, hi) == IF FLt(v, lo) THEN lo ELSE v

\* f32::clamp(lo, hi): NaN stays NaN.
Clamp(v, lo, hi) == IF FLt(v, lo) THEN lo ELSE IF FLt(hi, v) THEN hi ELSE v

\* ------------------------------------------------------------- equalizer
\* Biquad::new: the five coefficients, registers zeroed.
Biquad(b0, b1, b2, a1, a2) ==
    [b0 |-> b0, b1 |-> b1, b2 |-> b2, a1 |-> a1, a2 |-> a2, z1 |-> 0, z2 |-> 0]

\* Biquad::process: the output sample y for input x.
BiquadOut(band, x) == band.b0 * x + band.z1

\* Biquad::process: the band after processing x (registers updated).
BiquadStep(band, x) ==
    LET y == BiquadOut(band, x)
    IN [band EXCEPT !.z1 = band.b1 * x - band.a1 * y + band.z2,
                    !.z2 = band.b2 * x - band.a2 * y]

\* A loop that gives every band the sample the equalizer was given (a
\* faulty variant of Chain).
ChainSameInput(bands, x) ==
    IF bands = <<>> THEN <<x, <<>>>>
    ELSE <<BiquadOut(bands[Len(bands)], x),
           [i \in 1..Len(bands) |-> BiquadStep(bands[i], x)]>>

\* Eq::process, the loop over the bands: <<output, bands after>> for input x.
RECURSIVE Chain(_, _)
Chain(bands, x) ==
    IF bands = <<>> THEN <<x, <<>>>>
    ELSE LET rest == Chain(Tail(bands), BiquadOut(Head(bands), x))
         IN <<rest[1], <<BiquadStep(Head(bands), x)>> \o rest[2]>>

\* Eq::process without the bypass (a faulty variant of EqProcess).
EqProcessNoBypass(e, x) ==
    LET r == Chain(e.bands, x)
    IN <<r[1], [e EXCEPT !.bands = r[2]]>>

\* Eq::process: <<output, equalizer after>>.
EqProcess(e, x) ==
    IF ~e.enabled THEN <<x, e>>
    ELSE LET r == Chain(e.bands, x)
         IN <<r[1], [e EXCEPT !.bands = r[2]]>>

\* Eq::new.
EqNew(bands, enabled) == [enabled |-> enabled, bands |-> bands]

\* Biquad::reset: registers zeroed, coefficients kept.
BiquadReset(band) == [band EXCEPT !.z1 = 0, !.z2 = 0]

\* update_bands without the reset (a faulty variant of UpdateBands).
UpdateBandsNoReset(e, bands) == [e EXCEPT !.bands = bands]

\* Eq::update_bands: the chain is replaced and every band of it reset.
UpdateBands(e, bands) ==
    [e EXCEPT !.bands = [i \in 1..Len(bands) |-> BiquadReset(bands[i])]]

\* Eq::set_enabled.
SetEnabled(e, enabled) == [e EXCEPT !.enabled = enabled]

\* A band with memory: y[n] = x[n] + x[n-1].
Fir == Biquad(1, 1, 0, 0, 0)

\* The equalizers the backend is constructed with (enable_eq, eq_bands):
\* a band with memory, bypassed or enabled.
EqConfigs ==
    { [enabled |-> FALSE, bands |-> <<Fir>>],
      [enabled |-> TRUE, bands |-> <<Fir>>] }

\* ----------------------------------------------------------------- state
VARIABLES
    playing,         \* AudioState.playing
    volume,          \* AudioState.volume
    stop_signal,     \* AudioState.stop_signal
    lock,            \* holder of the AudioState mutex across steps: "free" or "cb"
    decoder_thread,  \* AudioBackend.decoder_thread: 0 is None, else the session
    stream,          \* AudioBackend.stream: 0 is None, else the session
    ring_buffer_size,\* AudioBackend.ring_buffer_size
    eq,              \* AudioBackend.eq, shared with every callback
    nsess,           \* number of track sessions created so far
    th,              \* per session: the decoder thread
    ring,            \* per session: the unread samples of its ring buffer
    st,              \* per session: its output stream
    cb,              \* the output callback invocation in progress, if any
    mpc,             \* position of the thread that calls the backend
    mop,             \* the backend operation that thread is in
    mjoin,           \* the thread handle stop_decoder took and joins
    ev,              \* the step just taken and how the last loads went (history)
    core,            \* the Core: properties, commands, event subscribers
    db,              \* the Database: its playlists and playlist_tracks tables
    app              \* the command the REPL is running and how far it has come

vars ==
    <<playing, volume, stop_signal, lock, decoder_thread, stream,
      ring_buffer_size, eq, nsess, th, ring, st, cb, mpc, mop, mjoin, ev,
      core, db, app>>

Sessions == 1..MaxLoads

\* The k-th sample a track decodes to (never 0.0, to tell it from silence).
SampleVal(k) == k

\* Values passed as default_volume and to set_volume.
VolInputs == {FNum(-1), FNum(1), FNum(VolDenom + 1), NaN, PInf, NInf}

\* Values passed as default_volume: one inside [0.0, 1.0], one above it.
DefaultVolumes == {FNum(1), FNum(VolDenom + 1)}

\* How the load_track calls went, as of the step op: "failed" once load_track
\* has returned a load error (File::open, probe, default_track, codec) and
\* until the next call of the backend; "retry" from a load_track call that
\* comes right after such a failure until the call after it; "" otherwise.
Hist(op) ==
    IF op = "load_err" THEN (IF mpc = "lt_open" THEN "failed" ELSE "")
    ELSE IF op = "load" THEN (IF ev.h = "failed" THEN "retry" ELSE "")
    ELSE IF op \in {"init", "play", "pause", "set_volume", "stop", "drop"} THEN ""
    ELSE ev.h

\* The step just taken: the operation or event, the argument of set_volume
\* and the history of the load_track calls.
EvArg(op, v) == [op |-> op, v |-> v, h |-> Hist(op)]
Ev(op) == EvArg(op, FZero)

Thread0 == [pc |-> "none", pend |-> <<>>, dec |-> 0]
Cb0 == [pc |-> "idle", s |-> 0, k |-> 0, out |-> <<>>]

\* Core::new: no property, no command, no event subscriber.
Core0 == [properties |-> <<>>, commands |-> <<>>, event_callbacks |-> <<>>]

\* Database::in_memory after init_tables: both tables empty.
Db0 == [playlists |-> {}, playlist_tracks |-> {}]

\* Repl::run waits for a line: no command is running.
App0 == [pc |-> "repl", track |-> "none"]

\* with_ring_buffer_size: the state after construction.
Init ==
    /\ playing = FALSE
    /\ volume \in DefaultVolumes
    /\ stop_signal = FALSE
    /\ lock = "free"
    /\ decoder_thread = 0
    /\ stream = 0
    /\ ring_buffer_size = RingSize
    /\ eq \in EqConfigs
    /\ nsess = 0
    /\ th = [i \in Sessions |-> Thread0]
    /\ ring = [i \in Sessions |-> <<>>]
    /\ st = [i \in Sessions |-> "none"]
    /\ cb = Cb0
    /\ mpc = "idle"
    /\ mop = "none"
    /\ mjoin = 0
    /\ ev = Ev("init")
    /\ core = Core0
    /\ db = Db0
    /\ app = App0

\* --------------------------------------------------- backend operations
\* The streams in D are dropped, and with each its callback closure and the
\* consumer half of its ring buffer; a ring buffer whose producer half is
\* gone too (the decoder thread has returned) is freed.
DropStreams(D) ==
    /\ st' = [i \in Sessions |-> IF i \in D THEN "dropped" ELSE st[i]]
    /\ ring' = [i \in Sessions |->
                   IF i \in D /\ th[i].pc = "done" THEN <<>> ELSE ring[i]]

\* The caller is between two backend operations and the backend exists.
Idle == mpc = "idle"

\* play that also resets the volume to 1.0 (a faulty variant of Play).
PlayResetsVolume ==
    /\ Idle /\ lock = "free"
    /\ playing' = TRUE
    /\ volume' = FOne
    /\ ev' = Ev("play")
    /\ UNCHANGED <<core, db, app>>
    /\ UNCHANGED <<stop_signal, lock, decoder_thread, stream,
                   ring_buffer_size, eq, nsess, th, ring, st, cb, mpc, mop, mjoin>>

\* AudioBackend::play: lock, playing = true, Ok(()).
Play ==
    /\ Idle /\ lock = "free"
    /\ playing' = TRUE
    /\ ev' = Ev("play")
    /\ UNCHANGED <<core, db, app>>
    /\ UNCHANGED <<volume, stop_signal, lock, decoder_thread, stream,
                   ring_buffer_size, eq, nsess, th, ring, st, cb, mpc, mop, mjoin>>

\* pause mistaken for stop: it also raises stop_signal (a faulty variant of Pause).
PauseSignalsStop ==
    /\ Idle /\ lock = "free"
    /\ playing' = FALSE
    /\ stop_signal' = TRUE
    /\ ev' = Ev("pause")
    /\ UNCHANGED <<core, db, app>>
    /\ UNCHANGED <<volume, lock, decoder_thread, stream,
                   ring_buffer_size, eq, nsess, th, ring, st, cb, mpc, mop, mjoin>>

\* AudioBackend::pause: lock, playing = false.
Pause ==
    /\ Idle /\ lock = "free"
    /\ playing' = FALSE
    /\ ev' = Ev("pause")
    /\ UNCHANGED <<core, db, app>>
    /\ UNCHANGED <<volume, stop_signal, lock, decoder_thread, stream,
                   ring_buffer_size, eq, nsess, th, ring, st, cb, mpc, mop, mjoin>>

\* set_volume clamping from below only (a faulty variant of SetVolume).
SetVolumeUpperUnchecked(v) ==
    /\ Idle /\ lock = "free"
    /\ volume' = ClampNoUpper(v, FZero, FOne)
    /\ ev' = EvArg("set_volume", v)
    /\ UNCHANGED <<core, db, app>>
    /\ UNCHANGED <<playing, stop_signal, lock, decoder_thread, stream,
                   ring_buffer_size, eq, nsess, th, ring, st, cb, mpc, mop, mjoin>>

\* AudioBackend::set_volume: lock, volume = volume.clamp(0.0, 1.0).
SetVolume(v) ==
    /\ Idle /\ lock = "free"
    /\ volume' = Clamp(v, FZero, FOne)
    /\ ev' = EvArg("set_volume", v)
    /\ UNCHANGED <<core, db, app>>
    /\ UNCHANGED <<playing, stop_signal, lock, decoder_thread, stream,
                   ring_buffer_size, eq, nsess, th, ring, st, cb, mpc, mop, mjoin>>

\* Entry of stop, load_track and drop: each begins with self.stop_decoder().
Call(op) ==
    /\ Idle
    /\ mop' = op
    /\ mpc' = "sd"
    /\ ev' = Ev(op)
    /\ UNCHANGED <<core, db, app>>
    /\ UNCHANGED <<playing, volume, stop_signal, lock, decoder_thread, stream,
                   ring_buffer_size, eq, nsess, th, ring, st, cb, mjoin>>

\* A drop that releases the fields without stop_decoder (a faulty variant of
\* DropCall).
DropSkipsStopDecoder ==
    /\ Idle
    /\ mop' = "drop"
    /\ mpc' = "drop_fields"
    /\ ev' = Ev("drop")
    /\ UNCHANGED <<core, db, app>>
    /\ UNCHANGED <<playing, volume, stop_signal, lock, decoder_thread, stream,
                   ring_buffer_size, eq, nsess, th, ring, st, cb, mjoin>>

\* load_track that goes to File::open without stop_decoder (a faulty variant
\* of LoadCall).
LoadCallSkipsStopDecoder ==
    /\ Idle
    /\ mop' = "load"
    /\ mpc' = "lt_open"
    /\ ev' = Ev("load")
    /\ UNCHANGED <<core, db, app>>
    /\ UNCHANGED <<playing, volume, stop_signal, lock, decoder_thread, stream,
                   ring_buffer_size, eq, nsess, th, ring, st, cb, mjoin>>

StopCall == Call("stop")
LoadCall == Call("load")
DropCall == Call("drop")

\* Where the operation continues once stop_decoder has returned.
AfterStopDecoder(op) ==
    CASE op = "stop" -> "st_flag"
      [] op = "load" -> "lt_open"
      [] op = "drop" -> "drop_fields"

\* stop_decoder signalling although there is no thread to stop (a faulty
\* variant of StopDecoderNone).
StopDecoderNoneSignals ==
    /\ mpc = "sd" /\ decoder_thread = 0 /\ lock = "free"
    /\ stop_signal' = TRUE
    /\ mpc' = "sd_clear"
    /\ ev' = Ev("sd_none")
    /\ UNCHANGED <<core, db, app>>
    /\ UNCHANGED <<playing, volume, lock, decoder_thread, stream,
                   ring_buffer_size, eq, nsess, th, ring, st, cb, mop, mjoin>>

\* stop_decoder, decoder_thread is None: nothing to do.
StopDecoderNone ==
    /\ mpc = "sd" /\ decoder_thread = 0
    /\ mpc' = AfterStopDecoder(mop)
    /\ ev' = Ev("sd_none")
    /\ UNCHANGED <<core, db, app>>
    /\ UNCHANGED <<playing, volume, stop_signal, lock, decoder_thread, stream,
                   ring_buffer_size, eq, nsess, th, ring, st, cb, mop, mjoin>>

\* stop_decoder keeping the AudioState guard while it joins (a faulty variant
\* of StopDecoderSignal).
StopDecoderJoinsLocked ==
    /\ mpc = "sd" /\ decoder_thread # 0 /\ lock = "free"
    /\ mjoin' = decoder_thread
    /\ decoder_thread' = 0
    /\ stop_signal' = TRUE
    /\ lock' = "main"
    /\ mpc' = "sd_join"
    /\ ev' = Ev("sd_signal")
    /\ UNCHANGED <<core, db, app>>
    /\ UNCHANGED <<playing, volume, stream,
                   ring_buffer_size, eq, nsess, th, ring, st, cb, mop>>

\* stop_decoder: take() the handle, lock, stop_signal = true.
StopDecoderSignal ==
    /\ mpc = "sd" /\ decoder_thread # 0 /\ lock = "free"
    /\ mjoin' = decoder_thread
    /\ decoder_thread' = 0
    /\ stop_signal' = TRUE
    /\ mpc' = "sd_join"
    /\ ev' = Ev("sd_signal")
    /\ UNCHANGED <<core, db, app>>
    /\ UNCHANGED <<playing, volume, lock, stream,
                   ring_buffer_size, eq, nsess, th, ring, st, cb, mop>>

\* stop_decoder with the join left out (a faulty variant of StopDecoderJoin).
StopDecoderNoJoin ==
    /\ mpc = "sd_join"
    /\ mpc' = "sd_clear"
    /\ ev' = Ev("sd_join")
    /\ UNCHANGED <<core, db, app>>
    /\ UNCHANGED <<playing, volume, stop_signal, lock, decoder_thread, stream,
                   ring_buffer_size, eq, nsess, th, ring, st, cb, mop, mjoin>>

\* stop_decoder: thread.join() returns once the thread function has returned.
StopDecoderJoin ==
    /\ mpc = "sd_join" /\ th[mjoin].pc = "done"
    /\ mpc' = "sd_clear"
    /\ ev' = Ev("sd_join")
    /\ UNCHANGED <<core, db, app>>
    /\ UNCHANGED <<playing, volume, stop_signal, lock, decoder_thread, stream,
                   ring_buffer_size, eq, nsess, th, ring, st, cb, mop, mjoin>>

\* stop_decoder returning with stop_signal left set (a faulty variant of
\* StopDecoderClear).
StopDecoderNoClear ==
    /\ mpc = "sd_clear" /\ lock = "free"
    /\ mjoin' = 0
    /\ mpc' = AfterStopDecoder(mop)
    /\ ev' = Ev("sd_clear")
    /\ UNCHANGED <<core, db, app>>
    /\ UNCHANGED <<playing, volume, stop_signal, lock, decoder_thread, stream,
                   ring_buffer_size, eq, nsess, th, ring, st, cb, mop>>

\* stop_decoder: lock, stop_signal = false, return.
StopDecoderClear ==
    /\ mpc = "sd_clear" /\ lock = "free"
    /\ stop_signal' = FALSE
    /\ mjoin' = 0
    /\ mpc' = AfterStopDecoder(mop)
    /\ ev' = Ev("sd_clear")
    /\ UNCHANGED <<core, db, app>>
    /\ UNCHANGED <<playing, volume, lock, decoder_thread, stream,
                   ring_buffer_size, eq, nsess, th, ring, st, cb, mop>>

\* stop returning with playing left as it was (a faulty variant of StopFlag).
StopFlagKeepsPlaying ==
    /\ mpc = "st_flag" /\ lock = "free"
    /\ mpc' = "idle"
    /\ ev' = Ev("stop_ret")
    /\ UNCHANGED <<core, db, app>>
    /\ UNCHANGED <<playing, volume, stop_signal, lock, decoder_thread, stream,
                   ring_buffer_size, eq, nsess, th, ring, st, cb, mop, mjoin>>

\* AudioBackend::stop after stop_decoder: lock, playing = false.
StopFlag ==
    /\ mpc = "st_flag" /\ lock = "free"
    /\ playing' = FALSE
    /\ mpc' = "idle"
    /\ ev' = Ev("stop_ret")
    /\ UNCHANGED <<core, db, app>>
    /\ UNCHANGED <<volume, stop_signal, lock, decoder_thread, stream,
                   ring_buffer_size, eq, nsess, th, ring, st, cb, mop, mjoin>>

\* load_track returning its error with stop_signal set (a faulty variant of
\* LoadOpenErr).
LoadErrLeavesSignal ==
    /\ mpc = "lt_open" /\ lock = "free"
    /\ stop_signal' = TRUE
    /\ mpc' = "idle"
    /\ ev' = Ev("load_err")
    /\ UNCHANGED <<core, db, app>>
    /\ UNCHANGED <<playing, volume, lock, decoder_thread, stream,
                   ring_buffer_size, eq, nsess, th, ring, st, cb, mop, mjoin>>

\* load_track spawning the decoder thread before the file turns out to be
\* unusable (a faulty variant of LoadOpenErr).
LoadErrAfterSpawn ==
    /\ mpc = "lt_open" /\ nsess < MaxLoads
    /\ nsess' = nsess + 1
    /\ th' = [th EXCEPT ![nsess + 1] = [Thread0 EXCEPT !.pc = "check"]]
    /\ mpc' = "idle"
    /\ ev' = Ev("load_err")
    /\ UNCHANGED <<core, db, app>>
    /\ UNCHANGED <<playing, volume, stop_signal, lock, decoder_thread, stream,
                   ring_buffer_size, eq, ring, st, cb, mop, mjoin>>

\* load_track: File::open, the probe, default_track or the codec lookup fails
\* and `?` returns the error.
LoadOpenErr ==
    /\ mpc = "lt_open"
    /\ mpc' = "idle"
    /\ ev' = Ev("load_err")
    /\ UNCHANGED <<core, db, app>>
    /\ UNCHANGED <<playing, volume, stop_signal, lock, decoder_thread, stream,
                   ring_buffer_size, eq, nsess, th, ring, st, cb, mop, mjoin>>

\* load_track: the file opens; a new ring buffer is made, the decoder thread
\* is spawned and its handle stored.
LoadSpawn ==
    /\ mpc = "lt_open" /\ nsess < MaxLoads
    /\ nsess' = nsess + 1
    /\ ring' = [ring EXCEPT ![nsess + 1] = <<>>]
    /\ th' = [th EXCEPT ![nsess + 1] = [Thread0 EXCEPT !.pc = "check"]]
    /\ decoder_thread' = nsess + 1
    /\ mpc' = "lt_build"
    /\ ev' = Ev("load_spawn")
    /\ UNCHANGED <<core, db, app>>
    /\ UNCHANGED <<playing, volume, stop_signal, lock, stream,
                   ring_buffer_size, eq, st, cb, mop, mjoin>>

\* load_track: build_output_stream fails and `?` returns the error; the
\* callback closure, and the consumer in it, is dropped with the call.
LoadBuildErr ==
    /\ mpc = "lt_build"
    /\ DropStreams({nsess})
    /\ mpc' = "idle"
    /\ ev' = Ev("load_err")
    /\ UNCHANGED <<core, db, app>>
    /\ UNCHANGED <<playing, volume, stop_signal, lock, decoder_thread, stream,
                   ring_buffer_size, eq, nsess, th, cb, mop, mjoin>>

\* load_track: build_output_stream succeeds.
LoadBuild ==
    /\ mpc = "lt_build"
    /\ st' = [st EXCEPT ![nsess] = "built"]
    /\ mpc' = "lt_play"
    /\ ev' = Ev("load_build")
    /\ UNCHANGED <<core, db, app>>
    /\ UNCHANGED <<playing, volume, stop_signal, lock, decoder_thread, stream,
                   ring_buffer_size, eq, nsess, th, ring, cb, mop, mjoin>>

\* load_track: stream.play() fails, `?` returns the error and the new stream,
\* still a local, is dropped.
LoadPlayErr ==
    /\ mpc = "lt_play"
    /\ DropStreams({nsess})
    /\ mpc' = "idle"
    /\ ev' = Ev("load_err")
    /\ UNCHANGED <<core, db, app>>
    /\ UNCHANGED <<playing, volume, stop_signal, lock, decoder_thread, stream,
                   ring_buffer_size, eq, nsess, th, cb, mop, mjoin>>

\* load_track: stream.play() succeeds; the device now calls the new callback.
LoadPlay ==
    /\ mpc = "lt_play"
    /\ st' = [st EXCEPT ![nsess] = "running"]
    /\ mpc' = "lt_assign"
    /\ ev' = Ev("load_play")
    /\ UNCHANGED <<core, db, app>>
    /\ UNCHANGED <<playing, volume, stop_signal, lock, decoder_thread, stream,
                   ring_buffer_size, eq, nsess, th, ring, cb, mop, mjoin>>

\* A callback invocation of stream i is in progress.
InCallback(i) == cb.pc # "idle" /\ cb.s = i

\* load_track that marks the backend as playing when it returns Ok (a faulty
\* variant of LoadAssign).
LoadAssignStartsPlaying ==
    /\ mpc = "lt_assign"
    /\ stream # 0 => ~InCallback(stream)
    /\ DropStreams({stream} \ {0})
    /\ stream' = nsess
    /\ playing' = TRUE
    /\ mpc' = "idle"
    /\ ev' = Ev("load_ok")
    /\ UNCHANGED <<core, db, app>>
    /\ UNCHANGED <<volume, stop_signal, lock, decoder_thread,
                   ring_buffer_size, eq, nsess, th, cb, mop, mjoin>>

\* load_track that stores the new stream and leaves the previous one running
\* (a faulty variant of LoadAssign).
LoadAssignKeepsOldStream ==
    /\ mpc = "lt_assign"
    /\ stream' = nsess
    /\ mpc' = "idle"
    /\ ev' = Ev("load_ok")
    /\ UNCHANGED <<core, db, app>>
    /\ UNCHANGED <<playing, volume, stop_signal, lock, decoder_thread,
                   ring_buffer_size, eq, nsess, th, ring, st, cb, mop, mjoin>>

\* load_track: self.stream = Some(stream) drops the previous stream (the drop
\* waits for a callback invocation of that stream to return), then Ok(()).
LoadAssign ==
    /\ mpc = "lt_assign"
    /\ stream # 0 => ~InCallback(stream)
    /\ DropStreams({stream} \ {0})
    /\ stream' = nsess
    /\ mpc' = "idle"
    /\ ev' = Ev("load_ok")
    /\ UNCHANGED <<core, db, app>>
    /\ UNCHANGED <<playing, volume, stop_signal, lock, decoder_thread,
                   ring_buffer_size, eq, nsess, th, cb, mop, mjoin>>

\* Drop for AudioBackend, after stop_decoder: the fields are dropped, the
\* stream among them; the backend is gone.
DropFields ==
    /\ mpc = "drop_fields"
    /\ stream # 0 => ~InCallback(stream)
    /\ DropStreams({stream} \ {0})
    /\ stream' = 0
    /\ mpc' = "dropped"
    /\ ev' = Ev("drop_ret")
    /\ UNCHANGED <<core, db, app>>
    /\ UNCHANGED <<playing, volume, stop_signal, lock, decoder_thread,
                   ring_buffer_size, eq, nsess, th, cb, mop, mjoin>>

\* -------------------------------------------------------- ring buffer
\* HeapRb::new(ring_buffer_size): capacity of every session's ring buffer.
Capacity == ring_buffer_size

\* A push that overwrites the oldest unread sample when the buffer is full
\* (a faulty variant of TryPush).
PushOverwrite(r, x) ==
    IF Len(r) < Capacity THEN [ok |-> TRUE, r |-> Append(r, x)]
    ELSE [ok |-> TRUE, r |-> Append(Tail(r), x)]

\* producer.try_push(x): Ok with x appended, or Err on a full buffer, which
\* is then unchanged.
TryPush(r, x) ==
    IF Len(r) < Capacity THEN [ok |-> TRUE, r |-> Append(r, x)]
    ELSE [ok |-> FALSE, r |-> r]

\* A pop that hands out a stale sample when the buffer is empty (a faulty variant
\* of TryPop).
PopStale(r) ==
    IF r = <<>> THEN [some |-> TRUE, x |-> SampleVal(1), r |-> r]
    ELSE [some |-> TRUE, x |-> Head(r), r |-> Tail(r)]

\* consumer.try_pop().unwrap_or(0.0): the oldest unread sample, or 0.0 on an
\* empty buffer, which is then unchanged.
TryPop(r) ==
    IF r = <<>> THEN [some |-> FALSE, x |-> 0, r |-> r]
    ELSE [some |-> TRUE, x |-> Head(r), r |-> Tail(r)]

\* ------------------------------------------------------ decoder thread
\* The thread function has returned: its locals are dropped, the decode
\* source and the producer half of the ring buffer among them.
ThreadDone == [pc |-> "done", pend |-> <<>>, dec |-> 0]

\* The ring buffer of session i after its thread has returned: freed when
\* the consumer half is gone too.
RingAtExit(i) ==
    /\ ring' = [ring EXCEPT ![i] = IF st[i] = "dropped" THEN <<>> ELSE ring[i]]

SetThread(i, t, e) ==
    /\ th' = [th EXCEPT ![i] = t]
    /\ ev' = Ev(e)
    /\ UNCHANGED <<core, db, app>>
    /\ UNCHANGED <<playing, volume, stop_signal, lock, decoder_thread, stream,
                   ring_buffer_size, eq, nsess, st, cb, mpc, mop, mjoin>>

\* The top of the loop without the stop_signal check (a faulty variant of
\* DecCheck).
DecCheckIgnoresStop(i) ==
    /\ th[i].pc = "check" /\ lock = "free"
    /\ SetThread(i, [th[i] EXCEPT !.pc = "next"], "dec")
    /\ UNCHANGED ring

\* Top of the loop: lock, read stop_signal, unlock; break when it is set.
DecCheck(i) ==
    /\ th[i].pc = "check" /\ lock = "free"
    /\ IF stop_signal
       THEN SetThread(i, ThreadDone, "dec_stopped") /\ RingAtExit(i)
       ELSE SetThread(i, [th[i] EXCEPT !.pc = "next"], "dec") /\ UNCHANGED ring

\* A decoder thread that reports the end of the track by clearing playing
\* (a faulty variant of DecEnd).
DecEndClearsPlaying(i) ==
    /\ th[i].pc = "next" /\ lock = "free"
    /\ th' = [th EXCEPT ![i] = ThreadDone]
    /\ playing' = FALSE
    /\ ev' = Ev("dec_end")
    /\ UNCHANGED <<core, db, app>>
    /\ RingAtExit(i)
    /\ UNCHANGED <<volume, stop_signal, lock, decoder_thread, stream,
                   ring_buffer_size, eq, nsess, st, cb, mpc, mop, mjoin>>

\* format.next_packet() fails (end of stream or a fatal demux error): break.
DecEnd(i) ==
    /\ th[i].pc = "next"
    /\ SetThread(i, ThreadDone, "dec_end")
    /\ RingAtExit(i)

\* A decode error that ends the loop (a faulty variant of DecBadPacket).
DecBadPacketEnds(i) ==
    /\ th[i].pc = "next"
    /\ SetThread(i, ThreadDone, "dec_bad")
    /\ RingAtExit(i)

\* decoder.decode(&packet) fails: continue with the next iteration.
DecBadPacket(i) ==
    /\ th[i].pc = "next"
    /\ SetThread(i, [th[i] EXCEPT !.pc = "check"], "dec_bad")
    /\ UNCHANGED ring

\* A packet decodes to n samples (of the MaxSamples the track holds), copied
\* to the sample buffer.
DecPacket(i, n) ==
    /\ th[i].pc = "next"
    /\ th[i].dec + n <= MaxSamples
    /\ SetThread(i, [pc |-> IF n = 0 THEN "check" ELSE "push",
                     pend |-> [j \in 1..n |-> SampleVal(th[i].dec + j)],
                     dec |-> th[i].dec + n], "dec")
    /\ UNCHANGED ring

\* A push that gives the sample up when the buffer is full and goes on to
\* the next one (a faulty variant of DecPush).
DecPushGivesUp(i) ==
    /\ th[i].pc = "push"
    /\ LET p == TryPush(ring[i], Head(th[i].pend))
       IN /\ ring' = [ring EXCEPT ![i] = p.r]
          /\ SetThread(i,
                [th[i] EXCEPT !.pend = Tail(th[i].pend),
                              !.pc = IF Len(th[i].pend) = 1 THEN "check"
                                     ELSE "push"],
                "dec")

\* producer.try_push(*sample): on success go on to the next sample (after
\* the last one, to the top of the loop); on a full buffer, sleep.
DecPush(i) ==
    /\ th[i].pc = "push"
    /\ LET p == TryPush(ring[i], Head(th[i].pend))
       IN /\ ring' = [ring EXCEPT ![i] = p.r]
          /\ SetThread(i,
                IF ~p.ok THEN [th[i] EXCEPT !.pc = "backoff"]
                ELSE [th[i] EXCEPT !.pend = Tail(th[i].pend),
                                   !.pc = IF Len(th[i].pend) = 1 THEN "check"
                                          ELSE "push"],
                "dec")

\* The backpressure loop without the stop_signal check (a faulty variant of
\* DecBackoff).
DecBackoffNoCheck(i) ==
    /\ th[i].pc = "backoff"
    /\ SetThread(i, [th[i] EXCEPT !.pc = "push"], "dec_retry")
    /\ UNCHANGED ring

\* After the sleep: lock, read stop_signal, unlock; return when it is set,
\* else retry the push.
DecBackoff(i) ==
    /\ th[i].pc = "backoff" /\ lock = "free"
    /\ IF stop_signal
       THEN SetThread(i, ThreadDone, "dec_stopped_full") /\ RingAtExit(i)
       ELSE SetThread(i, [th[i] EXCEPT !.pc = "push"], "dec_retry") /\ UNCHANGED ring

\* ----------------------------------------------------- output callback
\* The callback without its check of playing (a faulty variant of CbEnter).
CbEnterNoPlayingCheck(i) ==
    /\ st[i] = "running" /\ cb.pc = "idle" /\ lock = "free"
    /\ lock' = "cb"
    /\ cb' = [pc |-> "run", s |-> i, k |-> CbLen, out |-> <<>>]
    /\ ev' = Ev("cb_enter")
    /\ UNCHANGED <<core, db, app>>
    /\ UNCHANGED <<playing, volume, stop_signal, decoder_thread, stream,
                   ring_buffer_size, eq, nsess, th, ring, st, mpc, mop, mjoin>>

\* The device invokes the callback of stream i with a buffer of CbLen slots: the
\* callback locks AudioState, the consumer and the equalizer, and keeps the
\* three guards until it returns.  When not playing it writes 0.0 to every
\* slot and is at its return.
CbEnter(i) ==
    LET k == CbLen IN
    /\ st[i] = "running" /\ cb.pc = "idle" /\ lock = "free"
    /\ lock' = "cb"
    /\ cb' = IF playing
             THEN [pc |-> "run", s |-> i, k |-> k, out |-> <<>>]
             ELSE [pc |-> "ret", s |-> i, k |-> k, out |-> [j \in 1..k |-> FZero]]
    /\ ev' = Ev(IF playing THEN "cb_enter" ELSE "cb_silence")
    /\ UNCHANGED <<core, db, app>>
    /\ UNCHANGED <<playing, volume, stop_signal, decoder_thread, stream,
                   ring_buffer_size, eq, nsess, th, ring, st, mpc, mop, mjoin>>

\* The slot loop without the volume gain (a faulty variant of CbSlot).
CbSlotNoVolume ==
    /\ cb.pc = "run"
    /\ LET p == TryPop(ring[cb.s])
           e == IF eq.enabled THEN EqProcess(eq, p.x) ELSE <<p.x, eq>>
           out == Append(cb.out, FScale(e[1], FOne))
       IN /\ ring' = [ring EXCEPT ![cb.s] = p.r]
          /\ eq' = e[2]
          /\ cb' = [cb EXCEPT !.out = out,
                              !.pc = IF Len(out) = cb.k THEN "ret" ELSE "run"]
    /\ ev' = Ev("cb_slot")
    /\ UNCHANGED <<core, db, app>>
    /\ UNCHANGED <<playing, volume, stop_signal, lock, decoder_thread, stream,
                   ring_buffer_size, nsess, th, st, mpc, mop, mjoin>>

\* One slot of the loop: pop (0.0 on empty), equalizer if enabled, times
\* volume, written to the slot.
CbSlot ==
    /\ cb.pc = "run"
    /\ LET p == TryPop(ring[cb.s])
           e == IF eq.enabled THEN EqProcess(eq, p.x) ELSE <<p.x, eq>>
           out == Append(cb.out, FScale(e[1], volume))
       IN /\ ring' = [ring EXCEPT ![cb.s] = p.r]
          /\ eq' = e[2]
          /\ cb' = [cb EXCEPT !.out = out,
                              !.pc = IF Len(out) = cb.k THEN "ret" ELSE "run"]
    /\ ev' = Ev("cb_slot")
    /\ UNCHANGED <<core, db, app>>
    /\ UNCHANGED <<playing, volume, stop_signal, lock, decoder_thread, stream,
                   ring_buffer_size, nsess, th, st, mpc, mop, mjoin>>

\* The callback returns: the guards are dropped and the device takes the
\* buffer.
CbReturn ==
    /\ cb.pc = "ret"
    /\ lock' = "free"
    /\ cb' = Cb0
    /\ ev' = Ev("cb_ret")
    /\ UNCHANGED <<core, db, app>>
    /\ UNCHANGED <<playing, volume, stop_signal, decoder_thread, stream,
                   ring_buffer_size, eq, nsess, th, ring, st, mpc, mop, mjoin>>

\* AudioBackend::is_playing: lock, read playing.
IsPlaying == playing

\* ------------------------------------------------------- specification
\* Every step but set_volume.
Control ==
    \/ Play
    \/ Pause
    \/ StopCall
    \/ LoadCall
    \/ DropCall
    \/ StopDecoderNone
    \/ StopDecoderSignal
    \/ StopDecoderJoin
    \/ StopDecoderClear
    \/ StopFlag
    \/ LoadOpenErr
    \/ LoadSpawn
    \/ LoadBuildErr
    \/ LoadBuild
    \/ LoadPlayErr
    \/ LoadPlay
    \/ LoadAssign
    \/ DropFields
    \/ \E i \in Sessions : DecCheck(i)
    \/ \E i \in Sessions : DecEnd(i)
    \/ \E i \in Sessions : DecBadPacket(i)
    \/ \E i \in Sessions, n \in 0..MaxSamples : DecPacket(i, n)
    \/ \E i \in Sessions : DecPush(i)
    \/ \E i \in Sessions : DecBackoff(i)
    \/ \E i \in Sessions : CbEnter(i)
    \/ CbSlot
    \/ CbReturn

Next ==
    \/ \E v \in VolInputs : SetVolume(v)
    \/ Control

Spec == Init /\ [][Next]_vars

\* A step of the thread that calls the backend, inside an operation.
MainStep ==
    \/ StopDecoderNone
    \/ StopDecoderSignal
    \/ StopDecoderJoin
    \/ StopDecoderClear
    \/ StopFlag
    \/ LoadOpenErr
    \/ LoadBuildErr
    \/ LoadPlayErr
    \/ LoadAssign
    \/ DropFields

\* A step of the decoder thread of session i.
DecStep(i) ==
    \/ DecCheck(i)
    \/ DecEnd(i)
    \/ DecBadPacket(i)
    \/ \E n \in 0..MaxSamples : DecPacket(i, n)
    \/ DecPush(i)
    \/ DecBackoff(i)

\* Fair scheduling: a decoder thread that can run again and again does run
\* (its sleeps end, and it gets the AudioState lock although callbacks keep
\* taking it); a callback invocation runs to its return; a join returns once
\* the thread has.  Nothing obliges the device to invoke the callback or the
\* caller to call the backend.
Fairness ==
    /\ \A i \in Sessions : SF_vars(DecStep(i))
    /\ WF_vars(CbSlot)
    /\ WF_vars(CbReturn)
    /\ WF_vars(StopDecoderJoin)

\* The backend under fair scheduling.  No guard reads the volume or the
\* equalizer, so termination is explored for one default volume, the
\* equalizer bypassed and no set_volume call.
FairInit == Init /\ volume = FNum(1) /\ ~eq.enabled

FairSpec == FairInit /\ [][Control]_vars /\ Fairness

\* ------------------------------------------------- the equalizer alone
\* The fields of the backend, its threads, its callbacks and its caller.
audio_vars ==
    <<playing, volume, stop_signal, lock, decoder_thread, stream,
      ring_buffer_size, nsess, th, ring, st, cb, mpc, mop, mjoin, app>>

\* No backend is in use: its fields are those of a backend just constructed.
NoBackend ==
    /\ playing = FALSE /\ volume = FOne /\ stop_signal = FALSE
    /\ lock = "free" /\ decoder_thread = 0 /\ stream = 0
    /\ ring_buffer_size = RingSize /\ nsess = 0
    /\ th = [i \in Sessions |-> Thread0]
    /\ ring = [i \in Sessions |-> <<>>]
    /\ st = [i \in Sessions |-> "none"]
    /\ cb = Cb0 /\ mpc = "idle" /\ mop = "none" /\ mjoin = 0
    /\ app = App0

\* The sequences over S of length at most n.
SeqUpTo(S, n) == UNION {[1..k -> S] : k \in 0..n}

\* A band with feedback: y[n] = 2 x[n] - y[n-1].
Iir == Biquad(2, 0, 0, 1, 0)

\* Bands, as Biquad::new makes them.
NewBands == {Fir, Iir}

\* Bands that have processed samples: registers of any value.
UsedBands ==
    {[b EXCEPT !.z1 = r1, !.z2 = r2] : b \in NewBands, r1 \in {0, 1}, r2 \in {0, 1}}

\* Samples given to Eq::process.
EqInputs == {-1, 0, 1}

\* The call just made on the equalizer, its argument and result, and the
\* number of samples processed so far.
EqEv(op, x, y) ==
    [op |-> op, x |-> x, y |-> y,
     n |-> IF op = "process" THEN ev.n + 1 ELSE ev.n]

EqInit ==
    /\ NoBackend /\ core = Core0 /\ db = Db0
    /\ eq \in {EqNew(bands, enabled) :
                  bands \in SeqUpTo(NewBands, MaxBands), enabled \in BOOLEAN}
    /\ ev = [op |-> "new", x |-> 0, y |-> 0, n |-> 0]

\* eq.process(x)
EqProcessCall(x) ==
    /\ ev.n < MaxProcess
    /\ LET r == EqProcess(eq, x)
       IN /\ eq' = r[2]
          /\ ev' = EqEv("process", x, r[1])
    /\ UNCHANGED <<audio_vars, core, db>>

\* eq.update_bands(bands)
EqUpdateBandsCall(bands) ==
    /\ eq' = UpdateBands(eq, bands)
    /\ ev' = EqEv("update_bands", bands, 0)
    /\ UNCHANGED <<audio_vars, core, db>>

\* eq.set_enabled(enabled)
EqSetEnabledCall(enabled) ==
    /\ eq' = SetEnabled(eq, enabled)
    /\ ev' = EqEv("set_enabled", enabled, 0)
    /\ UNCHANGED <<audio_vars, core, db>>

EqNext ==
    \/ \E x \in EqInputs : EqProcessCall(x)
    \/ \E bands \in SeqUpTo(UsedBands, MaxBands) : EqUpdateBandsCall(bands)
    \/ \E enabled \in BOOLEAN : EqSetEnabledCall(enabled)

EqSpec == EqInit /\ [][EqNext]_vars

\* ------------------------------------------ coefficients of a band spec
\* Numbers.  from_config computes in f32 with divisions, so the coefficients
\* it makes, and the samples and registers of the bands made from them, are
\* exact rationals here: Q(n, d) is n / d in lowest terms, QNaN and QInf(s)
\* are the IEEE specials; rounding, overflow and the sign of zero are left
\* out.
Abs(n) == IF n < 0 THEN -n ELSE n

RECURSIVE GCD(_, _)
GCD(a, b) == IF b = 0 THEN a ELSE GCD(b, a % b)

Q(n, d) ==
    LET g == GCD(Abs(n), Abs(d))
    IN [k |-> "num", n |-> (Sign(d) * n) \div g, d |-> Abs(d) \div g]

QNaN == [k |-> "nan", n |-> 0, d |-> 0]
QInf(s) == [k |-> "inf", n |-> s, d |-> 0]
QZero == Q(0, 1)
QOne == Q(1, 1)
QTwo == Q(2, 1)

\* -a
QNeg(a) ==
    IF a.k = "nan" THEN QNaN
    ELSE IF a.k = "inf" THEN QInf(-a.n)
    ELSE Q(-a.n, a.d)

\* a + b: inf + (-inf) is NaN.
QAdd(a, b) ==
    IF a.k = "nan" \/ b.k = "nan" THEN QNaN
    ELSE IF a.k = "inf" /\ b.k = "inf" THEN (IF a.n = b.n THEN a ELSE QNaN)
    ELSE IF a.k = "inf" THEN a
    ELSE IF b.k = "inf" THEN b
    ELSE Q(a.n * b.d + b.n * a.d, a.d * b.d)

\* a - b
QSub(a, b) == QAdd(a, QNeg(b))

\* a * b: inf * 0 is NaN.
QMul(a, b) ==
    IF a.k = "nan" \/ b.k = "nan" THEN QNaN
    ELSE IF a.k = "inf" \/ b.k = "inf"
         THEN (IF a.n = 0 \/ b.n = 0 THEN QNaN ELSE QInf(Sign(a.n) * Sign(b.n)))
    ELSE Q(a.n * b.n, a.d * b.d)

\* a / b: 0 / 0 and inf / inf are NaN, x / 0 is an infinity, x / inf is 0.
QDiv(a, b) ==
    IF a.k = "nan" \/ b.k = "nan" THEN QNaN
    ELSE IF a.k = "inf"
         THEN (IF b.k = "inf" THEN QNaN
               ELSE QInf(a.n * (IF b.n < 0 THEN -1 ELSE 1)))
    ELSE IF b.k = "inf" THEN QZero
    ELSE IF b.n = 0 THEN (IF a.n = 0 THEN QNaN ELSE QInf(Sign(a.n)))
    ELSE Q(a.n * b.d, a.d * b.n)

\* `v as u8` of an f32: NaN is 0, the value is truncated towards zero and
\* saturates at 0 and at 255.
AsU8(v) ==
    IF v.k = "nan" THEN 0
    ELSE IF v.k = "inf" THEN (IF v.n > 0 THEN 255 ELSE 0)
    ELSE IF v.n < 0 THEN 0
    ELSE IF v.n \div v.d > 255 THEN 255
    ELSE v.n \div v.d

\* Frequencies of a band, by the angle w0 = 2 PI f0 / sample_rate they give:
\* 0 is f0 = 0 (w0 = 0), 1 the f0 with cos w0 = 3/5 and sin w0 = 4/5, 2 is
\* f0 = sample_rate / 4 (w0 = PI / 2).  The configured ones are 1 and 2.
Freqs == {1, 2}
CosW0(f0) == CASE f0 = 0 -> QOne [] f0 = 1 -> Q(3, 5) [] f0 = 2 -> QZero
SinW0(f0) == CASE f0 = 0 -> QZero [] f0 = 1 -> Q(4, 5) [] f0 = 2 -> QOne

\* Gains of a band, in steps of 40 log10(4) dB (about 24 dB): the step g
\* gives A = 10^(gain_db / 40) = 4^g and sqrt(A) = 2^g.
Gains == {0, 1}
LinearGain(gain_db) ==
    CASE gain_db = -1 -> Q(1, 4) [] gain_db = 0 -> QOne [] gain_db = 1 -> Q(4, 1)
SqrtGain(gain_db) ==
    CASE gain_db = -1 -> Q(1, 2) [] gain_db = 0 -> QOne [] gain_db = 1 -> QTwo

\* Quality factors of a band; 0.0 is what a band table without a second
\* entry gets, and nothing keeps a configured q positive.
Qualities == {QZero, QOne, Q(-1, 2)}

\* Shape codes of a band, as the f32 of the band array.
ShapeCodes == {Q(-1, 1), QZero, Q(1, 2), QOne, QTwo, Q(3, 1), QNaN}

\* The five values as computed, not divided by a0.
Unnormalised(b0, b1, b2, a0, a1, a2) == <<b0, b1, b2, a1, a2>>

\* The five values divided by a0.
Normalised(b0, b1, b2, a0, a1, a2) ==
    <<QDiv(b0, a0), QDiv(b1, a0), QDiv(b2, a0), QDiv(a1, a0), QDiv(a2, a0)>>

\* biquad_coefficients; sample_rate is in f0, gain_db selects A and sqrt(A).
BiquadCoefficients(f0, q, gain_db, band_type) ==
    LET a == LinearGain(gain_db)
        sqrt_a == SqrtGain(gain_db)
        cos_w0 == CosW0(f0)
        sin_w0 == SinW0(f0)
        alpha == QDiv(sin_w0, QMul(QTwo, q))
        ap1 == QAdd(a, QOne)
        am1 == QSub(a, QOne)
        sa2 == QMul(QMul(QTwo, sqrt_a), alpha)
    IN CASE band_type = 0 ->
              Normalised(
                QMul(a, QAdd(QSub(ap1, QMul(am1, cos_w0)), sa2)),
                QMul(QMul(QTwo, a), QSub(am1, QMul(ap1, cos_w0))),
                QMul(a, QSub(QSub(ap1, QMul(am1, cos_w0)), sa2)),
                QAdd(QAdd(ap1, QMul(am1, cos_w0)), sa2),
                QMul(QNeg(QTwo), QAdd(am1, QMul(ap1, cos_w0))),
                QSub(QAdd(ap1, QMul(am1, cos_w0)), sa2))
         [] band_type = 1 ->
              Normalised(
                QAdd(QOne, QMul(alpha, a)),
                QMul(QNeg(QTwo), cos_w0),
                QSub(QOne, QMul(alpha, a)),
                QAdd(QOne, QDiv(alpha, a)),
                QMul(QNeg(QTwo), cos_w0),
                QSub(QOne, QDiv(alpha, a)))
         [] band_type = 2 ->
              Normalised(
                QMul(a, QAdd(QAdd(ap1, QMul(am1, cos_w0)), sa2)),
                QMul(QMul(QNeg(QTwo), a), QAdd(am1, QMul(ap1, cos_w0))),
                QMul(a, QSub(QAdd(ap1, QMul(am1, cos_w0)), sa2)),
                QAdd(QSub(ap1, QMul(am1, cos_w0)), sa2),
                QMul(QTwo, QSub(am1, QMul(ap1, cos_w0))),
                QSub(QSub(ap1, QMul(am1, cos_w0)), sa2))
         [] OTHER -> <<QOne, QZero, QZero, QZero, QZero>>

\* A band spec [f32; 4]: f0, q, gain_db, shape code.
BandSpecs == Freqs \X Qualities \X Gains \X ShapeCodes

\* Biquad::new on f32 coefficients.
BiquadOfCoefficients(c) ==
    [b0 |-> c[1], b1 |-> c[2], b2 |-> c[3], a1 |-> c[4], a2 |-> c[5],
     z1 |-> QZero, z2 |-> QZero]

\* Eq::from_config: every band spec becomes a band, in order.
FromConfig(eq_bands, enabled) ==
    EqNew([i \in 1..Len(eq_bands) |->
              LET band == eq_bands[i]
              IN BiquadOfCoefficients(
                    BiquadCoefficients(band[1], band[2], band[3], AsU8(band[4])))],
          enabled)

\* Biquad::process on f32 values: the output sample.
BiquadOutQ(band, x) == QAdd(QMul(band.b0, x), band.z1)

\* Biquad::process on f32 values: the band afterwards.
BiquadStepQ(band, x) ==
    LET y == BiquadOutQ(band, x)
    IN [band EXCEPT
          !.z1 = QAdd(QSub(QMul(band.b1, x), QMul(band.a1, y)), band.z2),
          !.z2 = QSub(QMul(band.b2, x), QMul(band.a2, y))]

\* ---------------------------------------------- the configured bands
\* The equalizer made by from_config from a configured band list, and its
\* bands fed samples one at a time.  ev keeps the band list the equalizer
\* was made from, and of the last Biquad::process the band, the input and
\* the output; n counts the samples fed.
BandInputs == {QOne, Q(-1, 2)}

BandInit ==
    /\ NoBackend
    /\ core = Core0
    /\ db = Db0
    /\ \E eq_bands \in SeqUpTo(BandSpecs, MaxSpecs), enabled \in BOOLEAN :
          /\ eq = FromConfig(eq_bands, enabled)
          /\ ev = [op |-> "from_config", specs |-> eq_bands,
                   i |-> 0, x |-> QZero, y |-> QZero, n |-> 0]

\* eq.bands[i].process(x)
BandProcessCall(i, x) ==
    /\ ev.n < MaxProcess
    /\ i \in 1..Len(eq.bands)
    /\ eq' = [eq EXCEPT !.bands[i] = BiquadStepQ(eq.bands[i], x)]
    /\ ev' = [ev EXCEPT !.op = "process", !.i = i, !.x = x,
                        !.y = BiquadOutQ(eq.bands[i], x), !.n = ev.n + 1]
    /\ UNCHANGED <<audio_vars, core, db>>

BandNext == \E i \in 1..MaxSpecs, x \in BandInputs : BandProcessCall(i, x)

BandSpec == BandInit /\ [][BandNext]_vars

\* --------------------------------------------------------------- the core
\* Core: properties, commands and event subscribers.  A HashMap is a
\* function whose domain is the set of its keys.  A callback is known by the
\* number it was subscribed under; what it is called with is written to
\* calls, the trace of the operation that is running.
PropertyNames == {"test", "value"}
PropertyValues == {"initial", "new_value"}
CommandNames == {"set_value", "other"}

\* Command closures: the one of test_commands, which sets "value" to its
\* first parameter if it has one, and one that does nothing.
CommandKinds == {"SetValue", "Nothing"}
ParamLists == {<<>>, <<"initial">>, <<"new_value">>}

\* Core::get_property; "none" is None.
GetProperty(c, name) ==
    IF name \in DOMAIN c.properties THEN c.properties[name].value ELSE "none"

\* HashMap::insert
Insert(map, key, v) ==
    [k \in DOMAIN map \cup {key} |-> IF k = key THEN v ELSE map[k]]

\* One call of a callback: a property callback (kind "property") is given the
\* value, an event callback is given PropertyChanged(what) or
\* CommandExecuted(what); seen is what the callback gets from
\* core.get_property(watched) while it runs.  A run of a command closure is
\* written the same way (kind "execute", arg its parameters).
CallOf(kind, to, what, arg, c, watched) ==
    [kind |-> kind, to |-> to, what |-> what, arg |-> arg,
     seen |-> GetProperty(c, watched)]

\* The event sent to every event subscriber of c, in subscription order.
SendEvent(c, kind, what, watched) ==
    [j \in 1..Len(c.event_callbacks) |->
        CallOf(kind, c.event_callbacks[j], what, <<>>, c, watched)]

\* set_property that calls the subscribers before it stores the value (a
\* faulty variant of SetPropertyOp).
SetPropertyNotifiesFirst(c, name, value) ==
    IF name \notin DOMAIN c.properties
    THEN [core |-> c, calls |-> <<>>]
    ELSE LET c1 == [c EXCEPT !.properties[name].value = value]
             prop_callbacks == c.properties[name].callbacks
         IN [core |-> c1,
             calls |->
                [i \in 1..Len(prop_callbacks) |->
                    CallOf("property", prop_callbacks[i], name, <<value>>,
                         c, name)]
                \o SendEvent(c, "PropertyChanged", name, name)]

\* Core::set_property: the core afterwards and the calls made.
SetPropertyOp(c, name, value) ==
    IF name \notin DOMAIN c.properties
    THEN [core |-> c, calls |-> <<>>]
    ELSE LET c1 == [c EXCEPT !.properties[name].value = value]
             prop_callbacks == c1.properties[name].callbacks
         IN [core |-> c1,
             calls |->
                [i \in 1..Len(prop_callbacks) |->
                    CallOf("property", prop_callbacks[i], name, <<value>>,
                         c1, name)]
                \o SendEvent(c1, "PropertyChanged", name, name)]

\* The closure of a command run on the core.
RunCommand(kind, params, c) ==
    IF kind = "SetValue" /\ Len(params) >= 1
    THEN SetPropertyOp(c, "value", params[1])
    ELSE [core |-> c, calls |-> <<>>]

\* execute_command that returns at once for a name without a command, as
\* set_property does for a name without a property (a faulty variant of
\* ExecuteCommandOp).
ExecuteCommandReturnsEarly(c, name, params) ==
    IF name \in DOMAIN c.commands
    THEN LET r == RunCommand(c.commands[name], params, c)
         IN [core |-> r.core,
             calls |-> <<CallOf("execute", 0, name, params, c, "value")>>
                       \o r.calls
                       \o SendEvent(r.core, "CommandExecuted", name, "value")]
    ELSE [core |-> c, calls |-> <<>>]

\* Core::execute_command: the core afterwards and the calls made.
ExecuteCommandOp(c, name, params) ==
    LET r == IF name \in DOMAIN c.commands
             THEN LET run == RunCommand(c.commands[name], params, c)
                  IN [core |-> run.core,
                      calls |-> <<CallOf("execute", 0, name, params, c, "value")>>
                                \o run.calls]
             ELSE [core |-> c, calls |-> <<>>]
    IN [core |-> r.core,
        calls |-> r.calls
                  \o SendEvent(r.core, "CommandExecuted", name, "value")]

\* The numbers of the callbacks subscribed in c.
Subscribed(c) ==
    {c.event_callbacks[j] : j \in 1..Len(c.event_callbacks)}
    \cup UNION {{c.properties[n].callbacks[i] :
                    i \in 1..Len(c.properties[n].callbacks)} :
                n \in DOMAIN c.properties}

\* A callback not subscribed yet.
FreshCallback(c) ==
    CHOOSE id \in 1..MaxSubs : id \notin Subscribed(c)

CoreEv(op, name, arg, calls) ==
    [op |-> op, name |-> name, arg |-> arg, calls |-> calls]

CoreInit ==
    /\ NoBackend /\ eq = EqNew(<<>>, FALSE) /\ db = Db0
    /\ core = Core0
    /\ ev = CoreEv("new", "", <<>>, <<>>)

\* core.add_property(name, value): a new Property, without callbacks.
AddPropertyCall(name, value) ==
    /\ core' = [core EXCEPT !.properties =
                   Insert(@, name, [value |-> value, callbacks |-> <<>>])]
    /\ ev' = CoreEv("add_property", name, <<value>>, <<>>)
    /\ UNCHANGED <<audio_vars, eq, db>>

\* core.properties.get_mut(name) is Some(prop): prop.subscribe(callback)
SubscribeCall(name) ==
    /\ name \in DOMAIN core.properties
    /\ Subscribed(core) # 1..MaxSubs
    /\ core' = [core EXCEPT !.properties[name].callbacks =
                   Append(@, FreshCallback(core))]
    /\ ev' = CoreEv("subscribe", name, <<>>, <<>>)
    /\ UNCHANGED <<audio_vars, eq, db>>

\* core.subscribe_event(callback)
SubscribeEventCall ==
    /\ Subscribed(core) # 1..MaxSubs
    /\ core' = [core EXCEPT !.event_callbacks = Append(@, FreshCallback(core))]
    /\ ev' = CoreEv("subscribe_event", "", <<>>, <<>>)
    /\ UNCHANGED <<audio_vars, eq, db>>

\* core.add_command(name, command)
AddCommandCall(name, kind) ==
    /\ core' = [core EXCEPT !.commands = Insert(@, name, kind)]
    /\ ev' = CoreEv("add_command", name, <<>>, <<>>)
    /\ UNCHANGED <<audio_vars, eq, db>>

\* core.set_property(name, value)
SetPropertyCall(name, value) ==
    /\ LET r == SetPropertyOp(core, name, value)
       IN /\ core' = r.core
          /\ ev' = CoreEv("set_property", name, <<value>>, r.calls)
    /\ UNCHANGED <<audio_vars, eq, db>>

\* core.execute_command(name, params)
ExecuteCommandCall(name, params) ==
    /\ LET r == ExecuteCommandOp(core, name, params)
       IN /\ core' = r.core
          /\ ev' = CoreEv("execute_command", name, params, r.calls)
    /\ UNCHANGED <<audio_vars, eq, db>>

CoreNext ==
    \/ \E name \in PropertyNames, value \in PropertyValues :
          \/ AddPropertyCall(name, value)
          \/ SetPropertyCall(name, value)
    \/ \E name \in PropertyNames : SubscribeCall(name)
    \/ SubscribeEventCall
    \/ \E name \in CommandNames, kind \in CommandKinds :
          AddCommandCall(name, kind)
    \/ \E name \in CommandNames, params \in ParamLists :
          ExecuteCommandCall(name, params)

CoreSpec == CoreInit /\ [][CoreNext]_vars

\* ----------------------------------------------------------- the database
\* The tables playlists (id, name UNIQUE) and playlist_tracks (playlist_id,
\* track_path, position) as sets of rows.  The id of a playlist row is the
\* rowid SQLite gives an INTEGER PRIMARY KEY: one more than the largest in
\* the table.  The id of a track row is never read and is left out.
PlaylistNames == {"test", "other"}
TrackPaths == {"track1.mp3", "track2.mp3"}

\* The largest number of the set S, or none if S is empty.
MaxOr(S, none) == IF S = {} THEN none ELSE CHOOSE n \in S : \A k \in S : k <= n

\* SELECT id FROM playlists WHERE name = ?1; 0 is no row.
PlaylistId(d, name) ==
    IF \E r \in d.playlists : r.name = name
    THEN (CHOOSE r \in d.playlists : r.name = name).id
    ELSE 0

\* The track rows of the playlist with the id.
TracksOf(d, id) == {r \in d.playlist_tracks : r.playlist_id = id}

\* The track paths of the rows R, ORDER BY position.
RECURSIVE OrderByPosition(_)
OrderByPosition(R) ==
    IF R = {} THEN <<>>
    ELSE LET r == CHOOSE r \in R : \A s \in R : r.position <= s.position
         IN <<r.track_path>> \o OrderByPosition(R \ {r})

\* Database::get_playlist_tracks: empty for a playlist that does not exist.
GetPlaylistTracks(d, playlist) ==
    IF PlaylistId(d, playlist) = 0 THEN <<>>
    ELSE OrderByPosition(TracksOf(d, PlaylistId(d, playlist)))

\* INSERT OR IGNORE INTO playlists (name)
CreatePlaylist(d, name) ==
    IF PlaylistId(d, name) # 0 THEN d
    ELSE [d EXCEPT !.playlists =
            @ \cup {[id |-> MaxOr({r.id : r \in d.playlists}, 0) + 1,
                     name |-> name]}]

\* Database::delete_playlist
DeletePlaylist(d, name) ==
    LET id == PlaylistId(d, name)
    IN IF id = 0 THEN d
       ELSE [playlists |-> {r \in d.playlists : r.id # id},
             playlist_tracks |-> d.playlist_tracks \ TracksOf(d, id)]

\* add_track_to_playlist that takes the number of tracks of the playlist as
\* the position (a faulty variant of AddTrackToPlaylist).
AddTrackAtCount(d, playlist, track) ==
    LET d1 == CreatePlaylist(d, playlist)
        id == PlaylistId(d1, playlist)
    IN [d1 EXCEPT !.playlist_tracks =
          @ \cup {[playlist_id |-> id, track_path |-> track,
                   position |-> Cardinality(TracksOf(d1, id))]}]

\* Database::add_track_to_playlist: position COALESCE(MAX(position), -1) + 1
AddTrackToPlaylist(d, playlist, track) ==
    LET d1 == CreatePlaylist(d, playlist)
        id == PlaylistId(d1, playlist)
        position == MaxOr({r.position : r \in TracksOf(d1, id)}, -1) + 1
    IN [d1 EXCEPT !.playlist_tracks =
          @ \cup {[playlist_id |-> id, track_path |-> track,
                   position |-> position]}]

\* Database::remove_track_from_playlist
RemoveTrackFromPlaylist(d, playlist, track) ==
    LET id == PlaylistId(d, playlist)
    IN IF id = 0 THEN d
       ELSE [d EXCEPT !.playlist_tracks =
               {r \in @ : ~(r.playlist_id = id /\ r.track_path = track)}]

\* The ids and positions of d are within the bounds.
WithinBounds(d) ==
    /\ \A r \in d.playlists : r.id <= MaxPlaylistId
    /\ \A r \in d.playlist_tracks : r.position <= MaxPosition

DbEv(op, playlist, track) == [op |-> op, playlist |-> playlist, track |-> track]

DbInit ==
    /\ NoBackend /\ eq = EqNew(<<>>, FALSE) /\ core = Core0
    /\ db = Db0
    /\ ev = DbEv("in_memory", "", "")

\* db.create_playlist(name)
CreatePlaylistCall(name) ==
    /\ db' = CreatePlaylist(db, name)
    /\ WithinBounds(db')
    /\ ev' = DbEv("create_playlist", name, "")
    /\ UNCHANGED <<audio_vars, eq, core>>

\* db.delete_playlist(name)
DeletePlaylistCall(name) ==
    /\ db' = DeletePlaylist(db, name)
    /\ ev' = DbEv("delete_playlist", name, "")
    /\ UNCHANGED <<audio_vars, eq, core>>

\* db.add_track_to_playlist(playlist, track)
AddTrackCall(playlist, track) ==
    /\ db' = AddTrackToPlaylist(db, playlist, track)
    /\ WithinBounds(db')
    /\ ev' = DbEv("add_track_to_playlist", playlist, track)
    /\ UNCHANGED <<audio_vars, eq, core>>

\* db.remove_track_from_playlist(playlist, track)
RemoveTrackCall(playlist, track) ==
    /\ db' = RemoveTrackFromPlaylist(db, playlist, track)
    /\ ev' = DbEv("remove_track_from_playlist", playlist, track)
    /\ UNCHANGED <<audio_vars, eq, core>>

DbNext ==
    \/ \E name \in PlaylistNames :
          \/ CreatePlaylistCall(name)
          \/ DeletePlaylistCall(name)
    \/ \E playlist \in PlaylistNames, track \in TrackPaths :
          \/ AddTrackCall(playlist, track)
          \/ RemoveTrackCall(playlist, track)

DbSpec == DbInit /\ [][DbNext]_vars

\* ------------------------------------------------------------ the player
\* main: the Core with the playing and current_track properties, the
\* subscribers that drive the backend from them, and the 'play <track>' and
\* 'stop' commands as the REPL runs them.  The REPL, the command closures
\* and the subscribers run on one thread, so a command is at one place at a
\* time (app.pc) and the next line is read when it has returned.
TrackArgs == {"a.mp3", "none"}

\* main: add_property("playing", false), add_property("current_track",
\* "none"), one subscriber on each, the commands, one event subscriber.
PlayerCore ==
    [properties |->
        [n \in {"playing", "current_track"} |->
            IF n = "playing" THEN [value |-> FALSE, callbacks |-> <<2>>]
                             ELSE [value |-> "none", callbacks |-> <<1>>]],
     commands |-> [c \in {"play", "stop"} |-> c],
     event_callbacks |-> <<3>>]

\* The load_track call that has just returned gave Ok(()): it stored its
\* thread handle and then its stream; every error return leaves the two
\* fields apart or the handle None.
LoadedOk == decoder_thread # 0 /\ stream = decoder_thread

\* 'play <track>': set_property("current_track", track) stores the value and
\* calls the track subscriber, which for a track other than "none" locks the
\* backend and calls load_track.
PlayCommand(track) ==
    /\ app.pc = "repl" /\ Idle
    /\ core' = SetPropertyOp(core, "current_track", track).core
    /\ IF track # "none"
       THEN /\ mop' = "load"
            /\ mpc' = "sd"
            /\ ev' = Ev("load")
            /\ app' = [pc |-> "track_loading", track |-> track]
       ELSE /\ ev' = Ev("track_sub")
            /\ app' = [pc |-> "set_playing", track |-> track]
            /\ UNCHANGED <<mop, mpc>>
    /\ UNCHANGED <<playing, volume, stop_signal, lock, decoder_thread, stream,
                   ring_buffer_size, eq, nsess, th, ring, st, cb, mjoin, db>>

\* The track subscriber after load_track has returned: on Err it reports the
\* error; on Ok it calls play() if the playing property is true.
TrackSubscriberReturns ==
    /\ app.pc = "track_loading" /\ Idle
    /\ IF LoadedOk /\ core.properties["playing"].value
       THEN /\ lock = "free"
            /\ playing' = TRUE
            /\ ev' = Ev("play")
       ELSE /\ ev' = Ev("track_sub")
            /\ UNCHANGED playing
    /\ app' = [app EXCEPT !.pc = "set_playing"]
    /\ UNCHANGED <<volume, stop_signal, lock, decoder_thread, stream,
                   ring_buffer_size, eq, nsess, th, ring, st, cb, mpc, mop,
                   mjoin, core, db>>

\* A play command that sets playing only when the track was loaded (a faulty
\* variant of PlayCommandSetsPlaying).
PlayCommandSetsPlayingIfLoaded ==
    /\ app.pc = "set_playing" /\ Idle /\ lock = "free"
    /\ IF LoadedOk
       THEN /\ core' = SetPropertyOp(core, "playing", TRUE).core
            /\ playing' = TRUE
            /\ ev' = Ev("play")
       ELSE /\ ev' = Ev("track_sub")
            /\ UNCHANGED <<core, playing>>
    /\ app' = App0
    /\ UNCHANGED <<volume, stop_signal, lock, decoder_thread, stream,
                   ring_buffer_size, eq, nsess, th, ring, st, cb, mpc, mop,
                   mjoin, db>>

\* 'play <track>', second statement: set_property("playing", true) stores the
\* value and calls the playing subscriber, which calls play(); the command
\* returns.
PlayCommandSetsPlaying ==
    /\ app.pc = "set_playing" /\ Idle /\ lock = "free"
    /\ core' = SetPropertyOp(core, "playing", TRUE).core
    /\ playing' = TRUE
    /\ ev' = Ev("play")
    /\ app' = App0
    /\ UNCHANGED <<volume, stop_signal, lock, decoder_thread, stream,
                   ring_buffer_size, eq, nsess, th, ring, st, cb, mpc, mop,
                   mjoin, db>>

\* 'stop': set_property("playing", false) stores the value and calls the
\* playing subscriber, which calls pause().
StopCommand ==
    /\ app.pc = "repl" /\ Idle /\ lock = "free"
    /\ core' = SetPropertyOp(core, "playing", FALSE).core
    /\ playing' = FALSE
    /\ ev' = Ev("pause")
    /\ app' = [pc |-> "stop_track", track |-> "none"]
    /\ UNCHANGED <<volume, stop_signal, lock, decoder_thread, stream,
                   ring_buffer_size, eq, nsess, th, ring, st, cb, mpc, mop,
                   mjoin, db>>

\* 'stop', second statement: set_property("current_track", "none") stores
\* the value and calls the track subscriber, which does nothing for "none";
\* the command returns.
StopCommandSetsTrack ==
    /\ app.pc = "stop_track"
    /\ core' = SetPropertyOp(core, "current_track", "none").core
    /\ ev' = Ev("stop_cmd")
    /\ app' = App0
    /\ UNCHANGED <<playing, volume, stop_signal, lock, decoder_thread, stream,
                   ring_buffer_size, eq, nsess, th, ring, st, cb, mpc, mop,
                   mjoin, db>>

\* The backend as main constructs it, the core with its properties and
\* subscribers, the REPL waiting for a line.
PlayerInit ==
    /\ NoBackend
    /\ eq \in EqConfigs
    /\ core = PlayerCore
    /\ db = Db0
    /\ ev = Ev("init")

\* The commands, the steps of the backend operations they start, the decoder
\* threads and the output callbacks.
PlayerNext ==
    \/ \E track \in TrackArgs : PlayCommand(track)
    \/ TrackSubscriberReturns
    \/ PlayCommandSetsPlaying
    \/ StopCommand
    \/ StopCommandSetsTrack
    \/ StopDecoderNone
    \/ StopDecoderSignal
    \/ StopDecoderJoin
    \/ StopDecoderClear
    \/ LoadOpenErr
    \/ LoadSpawn
    \/ LoadBuildErr
    \/ LoadBuild
    \/ LoadPlayErr
    \/ LoadPlay
    \/ LoadAssign
    \/ \E i \in Sessions : DecCheck(i)
    \/ \E i \in Sessions : DecEnd(i)
    \/ \E i \in Sessions : DecBadPacket(i)
    \/ \E i \in Sessions, n \in 0..MaxSamples : DecPacket(i, n)
    \/ \E i \in Sessions : DecPush(i)
    \/ \E i \in Sessions : DecBackoff(i)
    \/ \E i \in Sessions : CbEnter(i)
    \/ CbSlot
    \/ CbReturn

PlayerSpec == PlayerInit /\ [][PlayerNext]_vars

\* --------------------------------------------------------------- claims
\* A decoder thread that has been spawned and has not returned.
Alive(i) == th[i].pc \notin {"none", "done"}

AliveThreads == {i \in Sessions : Alive(i)}

\* C1 as stated: at most one decoder thread is alive at any time, and when a
\* second (or later) load_track has returned Ok exactly one decoder thread is
\* alive, every earlier one having terminated.
C1_ExactlyOneAfterSecondLoad ==
    /\ Cardinality(AliveThreads) <= 1
    /\ (ev.op = "load_ok" /\ nsess >= 2) =>
          /\ Cardinality(AliveThreads) = 1
          /\ \A j \in 1..(nsess - 1) : th[j].pc = "done"

\* C1, amended: at most one decoder thread is alive at any time, it is the
\* thread of the newest session and the one whose handle the backend holds or
\* is joining; load_track has joined the previous thread when it opens the
\* file and spawns the next one, so after a second load_track every earlier
\* thread has terminated and the only thread that can be alive is the second
\* (which may already have returned at end of stream).
C1_AtMostOneDecoderThread ==
    /\ Cardinality(AliveThreads) <= 1
    /\ \A i \in AliveThreads : i = nsess /\ (decoder_thread = i \/ mjoin = i)
    /\ mpc = "lt_open" => AliveThreads = {}
    /\ (ev.op = "load_ok" /\ nsess >= 2) =>
          \A j \in 1..(nsess - 1) : th[j].pc = "done"

\* C1 witness: the second load_track has returned, its decoder thread runs,
\* the first one has terminated.
C1_Witness ==
    /\ ev.op = "load_ok" /\ nsess = 2
    /\ Alive(2)
    /\ th[1].pc = "done"

\* C2: stop_signal is true only inside stop_decoder, between its set and its
\* clear, and stop_decoder is at its clear only once the thread it signalled
\* has returned.
C2_StopSignalOnlyDuringStopDecoder ==
    /\ stop_signal => (mpc \in {"sd_join", "sd_clear"} /\ mjoin # 0)
    /\ mpc = "sd_clear" => (stop_signal /\ th[mjoin].pc = "done")

\* C2 witness: stop_decoder has just cleared stop_signal after joining the
\* thread of a loaded track.
C2_Witness ==
    /\ ev.op = "sd_clear"
    /\ ~stop_signal
    /\ nsess >= 1 /\ th[nsess].pc = "done"

\* The last element of a non-empty sequence.
Last(q) == q[Len(q)]

\* A step of the decoder thread of session i.
ThreadStep(i) == th'[i] # th[i]

\* A step of the callback's slot loop.
SlotStep == ev'.op = "cb_slot"

\* C3: every ring buffer holds between 0 and N unread samples; a push on a
\* full buffer fails, leaves the buffer and the sample to push as they were
\* and sends the thread to its backoff; a pop on an empty buffer leaves the
\* buffer empty and the callback goes on to write its slot.
C3_RingBufferBounded ==
    [][ /\ \A i \in Sessions : Len(ring'[i]) <= Capacity
        /\ \A i \in Sessions :
              (ThreadStep(i) /\ th[i].pc = "push" /\ Len(ring[i]) = Capacity) =>
                 /\ ring'[i] = ring[i]
                 /\ th'[i].pend = th[i].pend
                 /\ th'[i].pc = "backoff"
        /\ (SlotStep /\ ring[cb.s] = <<>>) =>
                 /\ ring' = ring
                 /\ Len(cb'.out) = Len(cb.out) + 1
      ]_vars

\* C3 witness: a push has failed on a full ring buffer of a running stream.
C3_Witness ==
    \E i \in Sessions :
        /\ th[i].pc = "backoff"
        /\ Len(ring[i]) = Capacity
        /\ st[i] = "running"

\* C4: under fair scheduling, once stop_decoder has set stop_signal and
\* waits in join, the decoder thread returns and the join returns, whatever
\* the state of the ring buffer and of playing.
C4_StopTerminatesDecoder ==
    \A i \in Sessions :
        (mpc = "sd_join" /\ mjoin = i) ~> (mpc = "sd_clear" /\ th[i].pc = "done")

\* C4 witness: the decoder thread has returned from its backpressure loop,
\* the ring buffer full and the callback paused, and stop_decoder is about
\* to return from join.
C4_Witness ==
    /\ ev.op = "dec_stopped_full"
    /\ mpc = "sd_join"
    /\ th[mjoin].pc = "done"
    /\ Len(ring[mjoin]) = Capacity
    /\ st[mjoin] = "running"
    /\ ~playing

\* C5 as stated: the volume is a number in [0.0, 1.0] in every reachable
\* state.
C5_VolumeInRange ==
    /\ IsFinite(volume)
    /\ 0 <= volume.n /\ volume.n <= VolDenom

\* clamp(v, 0, 1) as the claim spells it out: above 1 gives 1.0, below 0
\* gives 0.0, anything else is kept.
ClampedVolume(v) ==
    IF FLt(FOne, v) THEN FOne
    ELSE IF FLt(v, FZero) THEN FZero
    ELSE v

\* C6: set_volume(v) leaves clamp(v, 0, 1) in AudioState.volume and changes
\* neither playing nor stop_signal.
C6_SetVolumeClamps ==
    [][ ev'.op = "set_volume" =>
           /\ volume' = ClampedVolume(ev'.v)
           /\ playing' = playing
           /\ stop_signal' = stop_signal
      ]_vars

\* C6 witness: set_volume was called with a value above 1.0 and the volume
\* read back is 1.0.
C6_Witness ==
    /\ ev.op = "set_volume"
    /\ FLt(FOne, ev.v)
    /\ volume = FOne

\* C7: a callback invoked while playing is false writes 0.0 to every slot of
\* its buffer, pops nothing and does not run the equalizer; the fill level of
\* the ring buffer of a live stream does not decrease while playing is false.
C7_SilenceWhilePaused ==
    [][ /\ (~playing /\ cb.pc = "idle" /\ cb'.pc # "idle") =>
              /\ cb'.pc = "ret"
              /\ cb'.out = [j \in 1..CbLen |-> FZero]
              /\ ring' = ring
              /\ eq' = eq
        /\ ~playing =>
              \A i \in Sessions :
                 (st[i] = "running" /\ st'[i] = "running") =>
                    Len(ring'[i]) >= Len(ring[i])
      ]_vars

\* C7 witness: the callback has written silence while unread samples wait in
\* its ring buffer.
C7_Witness ==
    /\ ev.op = "cb_silence"
    /\ ring[cb.s] # <<>>
    /\ cb.out = [j \in 1..CbLen |-> FZero]

\* C8: pause sets playing to false and changes nothing else: not stop_signal,
\* not the thread handle, no decoder thread, no ring buffer, not the volume,
\* so every step a decoder thread could take before it can take after.
C8_PauseOnlyClearsPlaying ==
    [][ ev'.op = "pause" =>
           /\ playing' = FALSE
           /\ UNCHANGED <<volume, stop_signal, lock, decoder_thread, stream,
                          mjoin, th, ring, st, eq, nsess, cb>>
      ]_vars

\* C8 witness: pause was called while the decoder thread was pushing the
\* samples of a packet.
C8_Witness ==
    /\ ev.op = "pause"
    /\ \E i \in Sessions : th[i].pc = "push" /\ decoder_thread = i

\* The slot written by a step of the slot loop comes after the decoder
\* thread of the stream has returned and the ring buffer has been drained.
SlotAfterDrain ==
    /\ SlotStep
    /\ th[cb.s].pc = "done"
    /\ ring[cb.s] = <<>>

\* All filter registers of the equalizer are zero.
RegistersZero(e) ==
    \A b \in 1..Len(e.bands) : e.bands[b].z1 = 0 /\ e.bands[b].z2 = 0

C10_SlotValue ==
    [][ SlotStep =>
           LET r == ring[cb.s]
               x == IF r = <<>> THEN 0 ELSE Head(r)
               y == IF eq.enabled THEN Chain(eq.bands, x)[1] ELSE x
           IN /\ playing
              /\ ring'[cb.s] = (IF r = <<>> THEN <<>> ELSE Tail(r))
              /\ cb'.out = Append(cb.out, FScale(y, volume))
              /\ Len(cb'.out) <= CbLen
              /\ (cb'.pc = "ret") = (Len(cb'.out) = CbLen)
      ]_vars

\* C10 witness: the callback has filled its last slot with a sample popped
\* from the ring buffer, equalized and scaled by a volume other than 1.0.
C10_Witness ==
    /\ ev.op = "cb_slot"
    /\ cb.pc = "ret" /\ Len(cb.out) = CbLen
    /\ eq.enabled
    /\ volume = FNum(1)
    /\ Last(cb.out) \notin {FZero, NaN}

\* The backend is inside a call of stop().
InStop == mop = "stop" /\ mpc # "idle"

\* C11: when stop() returns, no decoder thread is alive, the thread handle is
\* empty (and no thread is being joined), playing is false and stop_signal is
\* false; no step taken between the call of stop() and its return changes
\* the volume.
C11_StopPostcondition ==
    [][ /\ ev'.op = "stop_ret" =>
              /\ AliveThreads' = {}
              /\ decoder_thread' = 0 /\ mjoin' = 0
              /\ playing' = FALSE
              /\ stop_signal' = FALSE
              /\ mpc' = "idle"
        /\ (InStop \/ ev'.op = "stop") => volume' = volume
      ]_vars

\* C11 witness: stop() has returned on a backend whose decoder thread was
\* pushing the track into the ring buffer of a playing stream.
C11_Witness ==
    /\ ev.op = "stop_ret"
    /\ nsess >= 1 /\ stream = nsess /\ st[nsess] = "running"
    /\ th[nsess].pc = "done"
    /\ ring[nsess] # <<>>
    /\ ~playing /\ ~stop_signal /\ decoder_thread = 0

\* stop() has returned and neither load_track nor drop has been called since.
StoppedSince == mop = "stop" /\ mpc = "idle"

\* C12 as stated: after stop() has returned, and until the next load_track, a
\* callback invocation that runs because of a later play() takes no sample
\* out of the ring buffer: what the stopped track left there is never
\* delivered to the device.
C12_NoStaleSampleAfterStop ==
    [][ (SlotStep /\ StoppedSince) => ring' = ring ]_vars

\* C13: stop() on a backend without decoder thread (never loaded, or already
\* stopped) and pause() before any load always run to their return and
\* change nothing but playing, which they leave false: stop_signal is false
\* before and after every step taken during such a stop(), stop_decoder finds
\* no handle and does nothing, and a stop() on a backend already stopped
\* (playing false, no thread) changes no field at all, so stop(); stop()
\* leaves what a single stop() leaves.
C13_NoOpWithoutThread ==
    [][ /\ (mop' = "stop" /\ decoder_thread = 0
                /\ ev'.op \in {"stop", "sd_none", "stop_ret"}) =>
              /\ playing' = (IF ev'.op = "stop_ret" THEN FALSE ELSE playing)
              /\ ~playing => playing' = playing
              /\ UNCHANGED <<volume, stop_signal, lock, decoder_thread, stream,
                             ring_buffer_size, eq, nsess, th, ring, st, cb,
                             mjoin>>
              /\ mpc' = (CASE ev'.op = "stop" -> "sd"
                           [] ev'.op = "sd_none" -> "st_flag"
                           [] ev'.op = "stop_ret" -> "idle")
        /\ (InStop /\ decoder_thread = 0 /\ mjoin = 0) =>
              ~stop_signal /\ ~stop_signal'
        /\ (ev'.op = "pause" /\ nsess = 0) =>
              /\ playing' = FALSE
              /\ UNCHANGED <<volume, stop_signal, lock, decoder_thread, stream,
                             ring_buffer_size, eq, nsess, th, ring, st, cb,
                             mjoin, mpc>>
        /\ (Idle /\ nsess = 0) => lock = "free"
      ]_vars

\* C13 witness: stop() has returned on a backend that never loaded a track.
C13_Witness ==
    /\ ev.op = "stop_ret"
    /\ nsess = 0 /\ stream = 0 /\ decoder_thread = 0
    /\ ~playing /\ ~stop_signal

\* C14: play() has one outcome, Ok: it sets playing to true and changes nothing
\* else; no decoder thread is spawned or takes a step, no thread is signalled
\* or joined, and stop_signal, the volume, every ring buffer, the output
\* stream and the equalizer are as before, also when no track was loaded.
C14_PlayOnlySetsPlaying ==
    [][ ev'.op = "play" =>
           /\ playing' = TRUE
           /\ mpc = "idle" /\ mpc' = "idle"
           /\ AliveThreads' = AliveThreads
           /\ UNCHANGED <<volume, stop_signal, lock, decoder_thread, stream,
                          ring_buffer_size, mjoin, th, ring, st, eq, nsess, cb>>
      ]_vars

\* C14 witness: play() has returned on a backend that never loaded a track.
C14_Witness ==
    /\ ev.op = "play"
    /\ playing
    /\ nsess = 0 /\ stream = 0 /\ decoder_thread = 0

\* load_track returns the error of File::open, the probe, default_track or
\* the codec lookup.
LoadErrorStep == mpc = "lt_open" /\ ev'.op = "load_err"

\* C15: a load_track that fails while opening the file, probing it, finding
\* the default track or making the decoder returns before it spawns a thread:
\* no decoder thread is alive when the error arises or after the call has
\* returned, the call has created no thread, and the thread handle is empty.
C15_LoadErrorBeforeSpawn ==
    [][ LoadErrorStep =>
           /\ AliveThreads = {} /\ AliveThreads' = {}
           /\ nsess' = nsess /\ th' = th
           /\ decoder_thread' = 0 /\ mjoin' = 0
           /\ mpc' = "idle"
      ]_vars

\* C15 witness: load_track has returned a load error on a backend that was
\* streaming an earlier track; that track's decoder thread has been stopped
\* and its stream is still the backend's.
C15_Witness ==
    /\ ev.op = "load_err" /\ mpc = "idle"
    /\ decoder_thread = 0
    /\ nsess >= 1 /\ stream = nsess /\ st[nsess] = "running"
    /\ th[nsess].pc = "done"
    /\ AliveThreads = {}

\* The step belongs to a load_track call that comes right after a load_track
\* call that returned a load error.
RetryStep == ev'.h = "retry"

\* C16: a load error ends that load_track call and nothing else.  The call
\* returns with stop_signal false, the thread handle empty and every other
\* field as it was when the error arose.  In the load_track call that
\* follows, stop_decoder finds no handle and no signal; the call spawns one
\* decoder thread, the only one alive; no decoder thread is ever stopped
\* except by a stop_decoder waiting in join; and when the call returns Ok
\* the handle is that thread's, the new stream has been started and is the
\* backend's, and stop_signal is false.
C16_LoadErrorLeavesBackendUsable ==
    [][ /\ LoadErrorStep =>
              /\ stop_signal' = FALSE
              /\ decoder_thread' = 0 /\ mjoin' = 0
              /\ mpc' = "idle"
              /\ UNCHANGED <<playing, volume, lock, stream, ring_buffer_size,
                             eq, nsess, th, ring, st, cb>>
        /\ (RetryStep /\ ev'.op = "load") =>
              /\ decoder_thread = 0 /\ ~stop_signal /\ AliveThreads = {}
        /\ (RetryStep /\ mpc = "sd") => ev'.op # "sd_signal"
        /\ (RetryStep /\ ev'.op = "load_spawn") =>
              /\ mpc = "lt_open" /\ mpc' = "lt_build"
              /\ nsess' = nsess + 1
              /\ AliveThreads = {} /\ AliveThreads' = {nsess'}
              /\ ~stop_signal'
        /\ (RetryStep /\ nsess' # nsess) => ev'.op = "load_spawn"
        /\ ev'.op \in {"dec_stopped", "dec_stopped_full"} =>
              mpc = "sd_join" /\ stop_signal
        /\ (RetryStep /\ ev'.op = "load_ok") =>
              /\ mpc = "lt_assign" /\ mpc' = "idle"
              /\ decoder_thread' = nsess /\ th[nsess].pc # "none"
              /\ AliveThreads' \subseteq {nsess}
              /\ stream' = nsess /\ st'[nsess] = "running"
              /\ stop_signal' = FALSE
      ]_vars

\* C16 witness: the load_track that followed a failed load_track has
\* returned Ok; its decoder thread is alive and its stream is running.
C16_Witness ==
    /\ ev.op = "load_ok" /\ ev.h = "retry"
    /\ Alive(nsess) /\ decoder_thread = nsess
    /\ stream = nsess /\ st[nsess] = "running"
    /\ ~stop_signal

\* Each element of q is the one before it plus one.
Consecutive(q) == \A j \in 1..(Len(q) - 1) : q[j + 1] = q[j] + 1

\* The samples of session i that are decoded and not yet popped: those in
\* the ring buffer, then those of the current packet still to be pushed.
Unread(i) == ring[i] \o th[i].pend

\* C17: a packet that fails to decode leaves its decoder thread alive and at
\* the top of its loop, where it checks stop_signal and reads the next
\* packet; the step puts nothing in any ring buffer and changes nothing else
\* of the thread.  The samples decoded and not yet popped are always a run of
\* consecutive samples of the track, ending (while the thread is alive) with
\* the last sample decoded: the good packets that come after a bad one are
\* pushed in order, with nothing lost and nothing added in between.
C17_DecodeErrorSkipsPacket ==
    [][ /\ ev'.op = "dec_bad" =>
              \E i \in Sessions :
                 /\ th[i].pc = "next"
                 /\ th'[i] = [th[i] EXCEPT !.pc = "check"]
                 /\ \A j \in Sessions \ {i} : th'[j] = th[j]
                 /\ ring' = ring
        /\ \A i \in Sessions :
              /\ Consecutive(Unread(i)')
              /\ (Alive(i)' /\ Unread(i)' # <<>>) =>
                    Last(Unread(i)') = SampleVal(th'[i].dec)
      ]_vars

\* C17 witness: a packet has failed to decode after earlier packets put
\* samples in the ring buffer and before the end of the track; the thread
\* is at the top of its loop.
C17_Witness ==
    /\ ev.op = "dec_bad"
    /\ \E i \in Sessions :
          /\ th[i].pc = "check"
          /\ ring[i] # <<>>
          /\ th[i].dec >= 1 /\ th[i].dec < MaxSamples
          /\ ~stop_signal

\* C18: next_packet failing, at the end of the stream or on a fatal demux
\* error alike, makes the decoder thread leave its loop and return; that
\* step, like every step of a decoder thread, writes neither playing nor
\* volume nor stop_signal, and leaves the handle and the stream as they
\* were.  playing changes only in play, pause and stop, so is_playing() still
\* returns true after a track has played to its end.
C18_EndOfStreamLeavesState ==
    [][ /\ ev'.op = "dec_end" =>
              /\ \E i \in Sessions :
                    /\ th[i].pc = "next"
                    /\ th'[i] = ThreadDone
                    /\ \A j \in Sessions \ {i} : th'[j] = th[j]
              /\ IsPlaying' = IsPlaying
              /\ UNCHANGED <<playing, volume, stop_signal, lock,
                             decoder_thread, stream, eq, st, cb, mpc, mjoin>>
        /\ \A i \in Sessions :
              ThreadStep(i) => UNCHANGED <<playing, volume, stop_signal>>
        /\ IsPlaying' # IsPlaying => ev'.op \in {"play", "pause", "stop_ret"}
      ]_vars

\* C18 witness: the decoder thread of the current track has returned at the
\* end of the stream while the backend was playing, and is_playing() is
\* true.
C18_Witness ==
    /\ ev.op = "dec_end"
    /\ IsPlaying
    /\ nsess >= 1 /\ th[nsess].pc = "done"
    /\ decoder_thread = nsess /\ stream = nsess /\ st[nsess] = "running"
    /\ mpc = "idle"

\* C19: drop starts with stop_decoder, whatever the backend is doing
\* (streaming, waiting on a full ring buffer, paused, at the end of the
\* stream); its join returns only once the thread has returned; and when
\* stop_decoder has returned to drop, and from then on, no decoder thread is
\* alive, no handle is held and stop_signal is false: no decoder thread
\* outlives the backend.
C19_DropStopsDecoder ==
    [][ /\ ev'.op = "drop" => (mpc = "idle" /\ mpc' = "sd")
        /\ (mop = "drop" /\ ev'.op = "sd_join") => th[mjoin].pc = "done"
        /\ mpc' \in {"drop_fields", "dropped"} =>
              /\ mop' = "drop"
              /\ AliveThreads' = {}
              /\ decoder_thread' = 0 /\ mjoin' = 0
              /\ stop_signal' = FALSE
        /\ mpc' = "dropped" => (stream' = 0 /\ cb' = Cb0)
      ]_vars

\* C19 witness: the backend has been dropped after it loaded a track; the
\* track's decoder thread has returned and its stream is gone.
C19_Witness ==
    /\ ev.op = "drop_ret" /\ mpc = "dropped"
    /\ nsess >= 1
    /\ th[nsess].pc = "done" /\ st[nsess] = "dropped"
    /\ AliveThreads = {}

\* C20 as stated: the AudioState lock is held only to read or write the
\* scalar fields.  The decoder thread and the backend operations take and
\* release it within one step (their decoding, pushing, sleeping and joining
\* are other steps); for the callback that leaves: no slot of the output
\* buffer is popped, equalized and scaled while the lock is held.
C20_LockOnlyForScalars ==
    [][ SlotStep => lock = "free" ]_vars

\* Some register of some band of e is not zero.
HasMemory(e) == ~RegistersZero(e)

\* C21: a disabled equalizer returns every sample it is given unchanged,
\* whatever its bands, and leaves every register of every band as it was.
C21_DisabledIsIdentity ==
    [][ (ev'.op = "process" /\ ~eq.enabled) =>
           /\ ev'.y = ev'.x
           /\ eq' = eq
      ]_vars

\* C21 witness: a disabled equalizer with a full chain whose registers hold
\* earlier samples has processed a sample other than 0.0 and returned it.
C21_Witness ==
    /\ ev.op = "process"
    /\ ~eq.enabled
    /\ Len(eq.bands) = MaxBands /\ HasMemory(eq)
    /\ ev.x # 0 /\ ev.y = ev.x

\* The value of the loop variable x of Eq::process before band i is run
\* (i = 1..n) and after the last band (i = n + 1), for the sample s.
LoopValues(bands, s) ==
    LET v[i \in 1..(Len(bands) + 1)] ==
            IF i = 1 THEN s ELSE BiquadOut(bands[i - 1], v[i - 1])
    IN v

\* C22: an enabled equalizer runs the sample through its bands in chain
\* order: band 1 gets the sample, band i + 1 gets the output of band i, the
\* result is the output of the last band (the sample itself when there is
\* no band), and every band has processed exactly one input, the one the
\* chain gave it; the band list and the enabled flag are otherwise as
\* before.
C22_EnabledRunsChainInOrder ==
    [][ (ev'.op = "process" /\ eq.enabled) =>
           LET n == Len(eq.bands)
               v == LoopValues(eq.bands, ev'.x)
           IN /\ ev'.y = v[n + 1]
              /\ n = 0 => ev'.y = ev'.x
              /\ eq'.enabled
              /\ Len(eq'.bands) = n
              /\ \A i \in 1..n : eq'.bands[i] = BiquadStep(eq.bands[i], v[i])
      ]_vars

\* C22 witness: an enabled equalizer of two different bands, with samples
\* in its registers, has processed a sample and returned another value.
C22_Witness ==
    /\ ev.op = "process"
    /\ eq.enabled
    /\ Len(eq.bands) = MaxBands /\ HasMemory(eq)
    /\ eq.bands[1].b0 # eq.bands[MaxBands].b0
    /\ ev.y # ev.x
    /\ ev.n = MaxProcess

\* The five coefficients of a band.
Coefficients(band) == <<band.b0, band.b1, band.b2, band.a1, band.a2>>

\* C23: after update_bands(new) the chain has as many bands as new, band i
\* has the coefficients of new[i], the registers of every band are 0, and
\* the enabled flag is what it was, whatever the registers of the old and
\* of the new bands were.
C23_UpdateBandsReplacesAndResets ==
    [][ ev'.op = "update_bands" =>
           LET new == ev'.x
           IN /\ Len(eq'.bands) = Len(new)
              /\ \A i \in 1..Len(new) :
                    /\ Coefficients(eq'.bands[i]) = Coefficients(new[i])
                    /\ eq'.bands[i].z1 = 0 /\ eq'.bands[i].z2 = 0
              /\ eq'.enabled = eq.enabled
      ]_vars

\* C23 witness: update_bands has been given two different bands with
\* samples in their registers, on an equalizer that had processed samples;
\* the registers of the chain are zero.
C23_Witness ==
    /\ ev.op = "update_bands"
    /\ Len(ev.x) = MaxBands
    /\ \A i \in 1..Len(ev.x) : ev.x[i].z1 # 0 /\ ev.x[i].z2 # 0
    /\ Coefficients(ev.x[1]) # Coefficients(ev.x[MaxBands])
    /\ ev.n >= 1
    /\ RegistersZero(eq) /\ Len(eq.bands) = MaxBands

\* The identity filter: b0 = 1 and b1 = b2 = a1 = a2 = 0.
IsIdentityFilter(band) ==
    /\ band.b0 = QOne
    /\ band.b1 = QZero /\ band.b2 = QZero
    /\ band.a1 = QZero /\ band.a2 = QZero

\* The shape codes of the three shapes: 0 low shelf, 1 peaking, 2 high shelf.
KnownShapes == {QZero, QOne, QTwo}

\* C24: every band spec whose shape code is not 0, 1 or 2 is converted by
\* from_config to the identity filter, and process of that band returns its
\* input, whatever was fed to it before.
C24_UnknownShapeIsIdentity ==
    \A i \in 1..Len(ev.specs) :
        ev.specs[i][4] \notin KnownShapes =>
            /\ IsIdentityFilter(eq.bands[i])
            /\ (ev.op = "process" /\ ev.i = i) => ev.y = ev.x

\* A configured peaking band with gain_db = 0.
FlatPeaking(band) == band[4] = QOne /\ band[3] = 0

\* a0 of a peaking band before the division: 1 + alpha / A.
PeakingA0(band) ==
    QAdd(QOne, QDiv(QDiv(SinW0(band[1]), QMul(QTwo, band[2])),
                    LinearGain(band[3])))

\* a0 is a finite number other than 0.
Regular(a0) == a0.k = "num" /\ a0.n # 0

\* The band i is transparent: b0 = 1, b1 = a1, b2 = a2, its registers are
\* zero, and its last process returned the sample it was given.
Transparent(i) ==
    /\ eq.bands[i].b0 = QOne
    /\ eq.bands[i].b1 = eq.bands[i].a1
    /\ eq.bands[i].b2 = eq.bands[i].a2
    /\ eq.bands[i].z1 = QZero /\ eq.bands[i].z2 = QZero
    /\ (ev.op = "process" /\ ev.i = i) => ev.y = ev.x

\* C25 as stated: a peaking band with gain_db = 0 gets b0 = 1, b1 = a1 and
\* b2 = a2, so from zeroed registers its process returns the input for
\* every input sequence.
C25_FlatPeakingIsIdentity ==
    \A i \in 1..Len(ev.specs) : FlatPeaking(ev.specs[i]) => Transparent(i)

\* C25 amended: a peaking band with gain_db = 0 whose a0 = 1 + alpha is
\* finite and not zero gets b0 = 1, b1 = a1 and b2 = a2, so from zeroed
\* registers its process returns the input for every input sequence.
C25_FlatPeakingIsIdentityForRegularA0 ==
    \A i \in 1..Len(ev.specs) :
        (FlatPeaking(ev.specs[i]) /\ Regular(PeakingA0(ev.specs[i])))
            => Transparent(i)

\* A flat peaking band with feedback (b1 = a1 # 0) and a negative alpha has
\* returned the second sample of a sequence unchanged.
C25_Witness ==
    /\ ev.op = "process" /\ ev.n = 2
    /\ FlatPeaking(ev.specs[ev.i])
    /\ Regular(PeakingA0(ev.specs[ev.i]))
    /\ ev.specs[ev.i][2] = Q(-1, 2)
    /\ eq.bands[ev.i].a1 # QZero
    /\ ev.y = ev.x /\ ev.x = Q(-1, 2)

\* C26: a newly constructed backend is not playing, has no decoder thread
\* and has stop_signal false; is_playing() returns the playing flag as it
\* is, and the flag changes only in play(), which sets it, and in pause()
\* and stop(), which clear it.
C26_PlayingFlag ==
    [][ /\ ev.op = "init" =>
              /\ ~playing /\ ~IsPlaying
              /\ decoder_thread = 0 /\ AliveThreads = {}
              /\ ~stop_signal
        /\ IsPlaying = playing /\ IsPlaying' = playing'
        /\ playing' # playing =>
              \/ ev'.op = "play" /\ playing'
              \/ ev'.op \in {"pause", "stop_ret"} /\ ~playing'
        /\ ev'.op = "play" => playing'
        /\ ev'.op \in {"pause", "stop_ret"} => ~playing'
      ]_vars

\* C26 witness: a track was loaded and is streaming on a backend that was
\* never told to play: is_playing() is still false, as it was when the
\* backend was constructed.
C26_Witness ==
    /\ ev.op = "load_ok"
    /\ ~IsPlaying
    /\ mop = "load" /\ mpc = "idle"
    /\ decoder_thread = nsess /\ stream = nsess /\ nsess = 1

\* C27: set_property on a registered property stores the value before it
\* notifies: each subscriber of that property is called exactly once, in
\* subscription order, with the new value, and get_property inside the
\* callback returns the new value; after them every event subscriber is
\* given PropertyChanged(name), in subscription order; subscribers of other
\* properties are not called, and no other property changes.
C27_SetPropertyStoresThenNotifies ==
    [][ (ev'.op = "set_property" /\ ev'.name \in DOMAIN core.properties) =>
           LET name == ev'.name
               value == ev'.arg[1]
               subs == core.properties[name].callbacks
               evs == core.event_callbacks
               q == ev'.calls
               CallsTo(t, id) == {i \in 1..Len(t) : t[i].to = id}
           IN /\ GetProperty(core', name) = value
              /\ Len(q) = Len(subs) + Len(evs)
              /\ \A i \in 1..Len(subs) :
                    /\ q[i].kind = "property" /\ q[i].to = subs[i]
                    /\ q[i].what = name /\ q[i].arg = <<value>>
                    /\ q[i].seen = value
                    /\ CallsTo(q, subs[i]) = {i}
              /\ \A j \in 1..Len(evs) :
                    /\ q[Len(subs) + j].kind = "PropertyChanged"
                    /\ q[Len(subs) + j].to = evs[j]
                    /\ q[Len(subs) + j].what = name
                    /\ q[Len(subs) + j].seen = value
                    /\ CallsTo(q, evs[j]) = {Len(subs) + j}
              /\ \A other \in DOMAIN core.properties \ {name} :
                    /\ core'.properties[other] = core.properties[other]
                    /\ \A i \in 1..Len(core.properties[other].callbacks) :
                          CallsTo(q, core.properties[other].callbacks[i]) = {}
              /\ core'.properties[name].callbacks = subs
              /\ DOMAIN core'.properties = DOMAIN core.properties
              /\ core'.event_callbacks = evs /\ core'.commands = core.commands
      ]_vars

\* C27 witness: set_property has changed a property with a subscriber while
\* the other property had a subscriber too and an event subscriber was
\* registered: two calls were made, the property callback first.
C27_Witness ==
    /\ ev.op = "set_property" /\ ev.name = "test"
    /\ DOMAIN core.properties = PropertyNames
    /\ Len(core.properties["test"].callbacks) = 1
    /\ Len(core.properties["value"].callbacks) = 1
    /\ Len(core.event_callbacks) = 1
    /\ Len(ev.calls) = 2
    /\ ev.calls[1].kind = "property" /\ ev.calls[1].seen = "new_value"
    /\ ev.calls[2].kind = "PropertyChanged"
    /\ core.properties["value"].value = "initial"

\* C28: execute_command runs the command registered under the name exactly
\* once, with the parameters given, and then sends CommandExecuted(name) to
\* every event subscriber, in subscription order, the property changes of
\* the command being visible to them and afterwards; for a name without a
\* command nothing is run and nothing changes, but CommandExecuted(name) is
\* still sent to every event subscriber.
C28_ExecuteCommandRunsThenNotifies ==
    [][ ev'.op = "execute_command" =>
           LET name == ev'.name
               params == ev'.arg
               evs == core'.event_callbacks
               q == ev'.calls
               first == Len(q) - Len(evs)
               Runs(t) == {i \in 1..Len(t) : t[i].kind = "execute"}
               Executed(t) == {i \in 1..Len(t) : t[i].kind = "CommandExecuted"}
           IN /\ first >= 0
              /\ Executed(q) = (first + 1)..Len(q)
              /\ \A j \in 1..Len(evs) :
                    /\ q[first + j].to = evs[j]
                    /\ q[first + j].what = name
                    /\ q[first + j].seen = GetProperty(core', "value")
              /\ IF name \in DOMAIN core.commands
                 THEN /\ Runs(q) = {1}
                      /\ q[1].what = name /\ q[1].arg = params
                      /\ (/\ core.commands[name] = "SetValue"
                          /\ params # <<>>
                          /\ "value" \in DOMAIN core.properties)
                            => GetProperty(core', "value") = params[1]
                 ELSE /\ Runs(q) = {}
                      /\ first = 0
                      /\ core' = core
      ]_vars

\* C28 witness: the command of test_commands was executed with a parameter
\* and changed the property; its property subscriber, then the event
\* subscriber for PropertyChanged, then the event subscriber for
\* CommandExecuted were called, and the new value is there afterwards.
C28_Witness ==
    /\ ev.op = "execute_command" /\ ev.name = "set_value"
    /\ ev.arg = <<"new_value">>
    /\ Len(ev.calls) = 4
    /\ ev.calls[1].kind = "execute" /\ ev.calls[1].seen = "initial"
    /\ ev.calls[2].kind = "property"
    /\ ev.calls[3].kind = "PropertyChanged"
    /\ ev.calls[4].kind = "CommandExecuted" /\ ev.calls[4].seen = "new_value"
    /\ GetProperty(core, "value") = "new_value"

\* An unregistered command name was executed: nothing ran, and the event
\* subscriber was given CommandExecuted.
C28_WitnessUnregistered ==
    /\ ev.op = "execute_command" /\ ev.name \notin DOMAIN core.commands
    /\ Len(core.event_callbacks) = 1
    /\ Len(ev.calls) = 1 /\ ev.calls[1].kind = "CommandExecuted"

\* C29: add_track_to_playlist puts the track after all the tracks of the
\* playlist, at the position one above the largest (0 in an empty playlist),
\* so no two tracks of a playlist share a position; remove_track_from_playlist
\* deletes every entry of the playlist with that path and keeps the others
\* in their order; neither changes what another playlist holds.  So after
\* any sequence of the two, get_playlist_tracks returns the remaining tracks
\* in the order they were added.
C29_PlaylistKeepsAddedOrder ==
    [][ \A p \in PlaylistNames :
           LET before == GetPlaylistTracks(db, p)
               after == GetPlaylistTracks(db', p)
               rows == TracksOf(db', PlaylistId(db', p))
               Kept(t) == t # ev'.track
           IN /\ (ev'.op = "add_track_to_playlist" /\ ev'.playlist = p) =>
                    /\ after = Append(before, ev'.track)
                    /\ \E r \in rows :
                          /\ r.track_path = ev'.track
                          /\ r.position =
                               MaxOr({s.position :
                                        s \in TracksOf(db, PlaylistId(db, p))},
                                     -1) + 1
                          /\ \A s \in rows \ {r} : s.position < r.position
              /\ (ev'.op = "remove_track_from_playlist" /\ ev'.playlist = p)
                    => after = SelectSeq(before, Kept)
              /\ (/\ ev'.op \in {"add_track_to_playlist",
                                  "remove_track_from_playlist"}
                  /\ ev'.playlist # p) => after = before
              /\ Len(after) = Cardinality(rows)
              /\ \A r, s \in rows : r.position = s.position => r = s
      ]_vars

\* C29 witness: a track was added to a playlist from which an earlier track
\* had been removed while a later one stayed, and which holds the added
\* track twice: the remaining tracks are in the order they were added.
C29_Witness ==
    /\ ev.op = "add_track_to_playlist" /\ ev.playlist = "test"
    /\ ev.track = "track2.mp3"
    /\ GetPlaylistTracks(db, "test") = <<"track2.mp3", "track2.mp3">>
    /\ {r.position : r \in TracksOf(db, PlaylistId(db, "test"))} = {1, 2}

Replacing == mpc = "lt_assign"

\* C31: a load_track that succeeds makes a new, empty ring buffer for its
\* session, into which only the decoder thread of that session pushes, and
\* when it returns the stream of its session is the one held and the only
\* one running; from then on every callback invocation belongs to that
\* stream and pops from that ring buffer only, so no sample of the track
\* before is output after the call has returned.
C31_LoadReplacesRingAndStream ==
    [][ /\ ev'.op = "load_spawn" =>
              /\ nsess' = nsess + 1
              /\ ring'[nsess'] = <<>>
              /\ st'[nsess'] = "none"
        /\ \A i \in Sessions :
              Len(ring'[i]) > Len(ring[i]) => (th[i].pc = "push" /\ th'[i] # th[i])
        /\ ev'.op = "load_ok" =>
              /\ stream' = nsess /\ st'[nsess] = "running"
              /\ cb'.pc # "idle" => cb'.s = nsess
        /\ ~Replacing' =>
              /\ \A i \in Sessions : st'[i] = "running" => i = stream'
              /\ cb'.pc # "idle" => cb'.s = stream'
        /\ (ev'.op = "cb_slot" /\ ~Replacing) =>
              /\ cb.s = stream
              /\ \A i \in Sessions \ {stream} : ring'[i] = ring[i]
      ]_vars

\* C31 witness: after a second load_track returned, while playing, the
\* callback of the second stream has popped a sample of the second track;
\* the first stream is dropped.
C31_Witness ==
    /\ ev.op = "cb_slot"
    /\ mop = "load" /\ mpc = "idle"
    /\ nsess = 2 /\ stream = 2 /\ cb.s = 2
    /\ st[1] = "dropped" /\ st[2] = "running"
    /\ th[2].dec >= 1 /\ Unread(2) = <<>>

\* The decoder thread of session i calls format.next_packet().
PullsPacket(i) == th[i].pc = "next" /\ th'[i] # th[i]

\* With stop_signal set, the decoder thread of session i does not wait: at
\* the top of its loop and after a sleep it returns, and a push either puts
\* the sample in the buffer or finds it full and goes to the sleep after
\* which it returns.
StopsWithoutWaiting(i) ==
    /\ (th[i].pc \in {"check", "backoff"} /\ th'[i] # th[i]) =>
          th'[i] = ThreadDone
    /\ (th[i].pc = "push" /\ th'[i] # th[i]) =>
          \/ /\ ring'[i] = Append(ring[i], Head(th[i].pend))
             /\ th'[i].pend = Tail(th[i].pend)
             /\ th'[i].pc \in {"push", "check"}
          \/ /\ Len(ring[i]) = Capacity /\ ring'[i] = ring[i]
             /\ th'[i] = [th[i] EXCEPT !.pc = "backoff"]

\* C32 as stated: the decoder thread checks stop_signal at the top of every
\* iteration, before it pulls the next packet; once stop_signal is set it
\* pulls no further packet, and pushes at most the samples of the packet it
\* is handling that fit into the buffer without waiting.
C32_NoPacketOnceSignalled ==
    [][ \A i \in Sessions :
           /\ (th'[i].pc = "next" /\ th[i].pc # "next") =>
                 (th[i].pc = "check" /\ ~stop_signal)
           /\ stop_signal => (~PullsPacket(i) /\ StopsWithoutWaiting(i))
      ]_vars

\* C32 amended: the thread pulls a packet only after a check at the top of
\* the iteration that found stop_signal false; once stop_signal is set it
\* passes no further check, so it pulls at most one further packet, the
\* one whose check it had passed before the signal was set, and pushes at
\* most the samples of the packet it is handling that fit into the buffer
\* without waiting.
C32_NoCheckPassedOnceSignalled ==
    [][ \A i \in Sessions :
           /\ (th'[i].pc = "next" /\ th[i].pc # "next") =>
                 (th[i].pc = "check" /\ ~stop_signal)
           /\ PullsPacket(i) => th'[i].pc # "next"
           /\ stop_signal =>
                 /\ th'[i].pc = "next" => th'[i] = th[i]
                 /\ StopsWithoutWaiting(i)
      ]_vars

\* C32 witness: stop_decoder set stop_signal after the thread had passed
\* its check; the thread has pulled and decoded one more packet since, of
\* two samples, and is about to push them.
C32_Witness ==
    /\ ev.op = "dec"
    /\ stop_signal /\ mpc = "sd_join"
    /\ th[mjoin].pc = "push"
    /\ Len(th[mjoin].pend) = 2 /\ th[mjoin].dec = 2

\* C33: stop_signal is false when a decoder thread is spawned, the
\* stop_decoder at the start of the same load_track having returned with it
\* cleared; and a thread reads stop_signal = true only while a stop_decoder
\* call that took the handle of that very thread, hence one started after
\* the thread was spawned, is waiting to join it.
C33_NoStaleStopRequest ==
    [][ LET ReadsStop(i) ==
                /\ th[i].pc \in {"check", "backoff"}
                /\ th'[i] = ThreadDone
                /\ ev'.op \in {"dec_stopped", "dec_stopped_full"}
        IN
        /\ ev'.op = "load_spawn" =>
              /\ ~stop_signal /\ ~stop_signal'
              /\ mjoin = 0
              /\ decoder_thread = 0 /\ decoder_thread' = nsess'
              /\ th'[nsess'].pc = "check"
        /\ \A i \in Sessions :
              /\ ReadsStop(i) =>
                    /\ stop_signal
                    /\ mpc = "sd_join" /\ mjoin = i
              /\ (stop_signal /\ Alive(i)) => (mpc = "sd_join" /\ mjoin = i)
      ]_vars

\* C33 witness: a second load_track stopped the first thread, cleared
\* stop_signal and spawned the second thread, which has passed its first
\* check, reading false, while load_track is still at work.
C33_Witness ==
    /\ ev.op = "dec"
    /\ mpc = "lt_build" /\ nsess = 2
    /\ th[2].pc = "next" /\ th[2].dec = 0
    /\ th[1].pc = "done"
    /\ ~stop_signal

\* C34: no interleaving deadlocks.  The AudioState lock is held from one
\* step to the next only by a callback invocation, which has its three
\* locks (AudioState, consumer, equalizer, taken in that order by every
\* callback) and runs to its return without waiting; a decoder thread and
\* a backend operation take the AudioState lock alone and release it in the
\* same step, so each of them can go on whenever no callback invocation is
\* running; stop_decoder joins without the lock, so the thread it joins can
\* still read stop_signal, and the join returns once the thread has.
C34_NoDeadlock ==
    /\ lock \in {"free", "cb"}
    /\ lock = "cb" <=> cb.pc # "idle"
    /\ cb.pc # "idle" => ENABLED (CbSlot \/ CbReturn)
    /\ \A i \in Sessions : (Alive(i) /\ cb.pc = "idle") => ENABLED DecStep(i)
    /\ (/\ mpc \notin {"idle", "dropped"}
        /\ cb.pc = "idle"
        /\ mpc = "sd_join" => ~Alive(mjoin)) => ENABLED MainStep
    /\ mpc = "sd_join" => (mjoin # 0 /\ lock # "main")

\* C34 witness: stop_decoder is waiting in join for a thread that sleeps on
\* a full ring buffer, while a callback invocation holds the locks.
C34_Witness ==
    /\ mpc = "sd_join" /\ stop_signal
    /\ th[mjoin].pc = "backoff"
    /\ lock = "cb" /\ cb.pc = "run" /\ cb.s = mjoin

\* C35: at every moment at most one output stream of the backend is
\* running, so that one consumer only advances the shared equalizer; once
\* load_track has started the new stream, the stream of the track before
\* is no longer running.
C35_OneStreamRunning ==
    LET RunningStreams == {i \in Sessions : st[i] = "running"}
    IN /\ Cardinality(RunningStreams) <= 1
       /\ ev.op = "load_play" => RunningStreams = {nsess}
       /\ cb.pc # "idle" => RunningStreams = {cb.s}

\* C36: load_track has stopped and joined the decoder thread of the session
\* before when it opens the new file: at that point no thread is alive,
\* no handle is held and stop_signal is false.  So when load_track returns
\* an error, at whatever stage, no thread of an earlier session is alive;
\* and no step taken while load_track is at work changes playing or the
\* volume, and none but the last step of a successful call changes the
\* stream held or stops it.
C36_FailedLoadEndsPreviousSession ==
    [][ /\ (mpc = "lt_open" /\ mpc' # "lt_open") =>
              /\ AliveThreads = {}
              /\ decoder_thread = 0 /\ mjoin = 0
              /\ ~stop_signal
        /\ ev'.op = "load_err" =>
              /\ AliveThreads' \subseteq (IF mpc = "lt_open" THEN {} ELSE {nsess})
              /\ \A i \in 1..(IF mpc = "lt_open" THEN nsess ELSE nsess - 1) :
                    th'[i].pc = "done"
              /\ mpc' = "idle" /\ ~stop_signal'
        /\ (mop = "load" /\ mpc # "idle") =>
              /\ playing' = playing /\ volume' = volume
              /\ ev'.op # "load_ok" =>
                    /\ stream' = stream
                    /\ stream # 0 => st'[stream] = st[stream]
      ]_vars

\* C36 witness: a load_track on a backend that was playing a track has
\* failed to open the file: the thread of that track has returned, the
\* handle is empty, and the stream of that track is still held and
\* running, its ring buffer still full, with playing still true.
C36_Witness ==
    /\ ev.op = "load_err" /\ mop = "load" /\ mpc = "idle"
    /\ nsess = 1 /\ th[1].pc = "done"
    /\ decoder_thread = 0
    /\ stream = 1 /\ st[1] = "running"
    /\ Len(ring[1]) = Capacity
    /\ playing

\* C37: when load_track has returned an error, whether from opening the
\* file or from building or starting the output stream, no decoder thread
\* of the backend is running.
C37_NoThreadAfterLoadError ==
    ev.op = "load_err" => (AliveThreads = {} /\ decoder_thread = 0)

\* The load_track call the play command made has not returned yet.
PlayLoading == app.pc = "track_loading" /\ mpc # "idle"

\* A callback step takes a sample out of the ring buffer of the track being
\* loaded: the callback is the one of a stream that is not yet stored in the
\* backend, and its pop finds a sample.
TakesNewSample ==
    /\ ev'.op = "cb_slot"
    /\ cb.s # stream
    /\ ring'[cb.s] # ring[cb.s]

\* The second statement of the play command runs: playing is set and the
\* command returns.
SetsPlaying == app.pc = "set_playing" /\ app'.pc = "repl"

\* What holds when the play command sets playing: current_track holds the
\* track already, its load_track call (made unless the track is "none") has
\* returned, and whether or not that call gave Ok the property and the
\* backend's flag become true through play().
PlayingSetAfterLoad ==
    /\ core.properties["current_track"].value = app.track
    /\ mpc = "idle"
    /\ app.track # "none" => mop = "load"
    /\ ev'.op = "play"
    /\ core'.properties["playing"].value = TRUE
    /\ playing'

\* C38 as stated: the 'play <track>' command sets current_track before
\* playing, so its load_track call has returned when the playing subscriber
\* calls play(), and playing is set to true also when the load failed; and
\* while that load_track call has not returned, no callback takes a sample
\* of the new track.
C38_NoNewSampleBeforeLoadReturns ==
    [][ /\ SetsPlaying => PlayingSetAfterLoad
        /\ PlayLoading => ~TakesNewSample
      ]_vars

\* C38 amended: the order of the command and the setting of playing as
\* stated; while the load_track call has not returned, no callback takes a
\* sample of the new track if the playing property was false when the
\* command was given, and none before load_track has started the new
\* stream if it was true.
C38_NoNewSampleBeforeLoadReturnsUnlessPlaying ==
    [][ /\ SetsPlaying => PlayingSetAfterLoad
        /\ (PlayLoading /\ TakesNewSample) =>
              /\ core.properties["playing"].value = TRUE
              /\ mpc = "lt_assign"
              /\ cb.s = decoder_thread
      ]_vars

\* C38 witness: a 'play a.mp3' given while nothing played has returned; its
\* load_track failed after the decoder thread was spawned, and playing is
\* true all the same, in the property and in the backend.
C38_Witness ==
    /\ app.pc = "repl" /\ ev.op = "play"
    /\ core.properties["current_track"].value = "a.mp3"
    /\ core.properties["playing"].value = TRUE
    /\ playing
    /\ mop = "load" /\ mpc = "idle"
    /\ ~LoadedOk
    /\ nsess = 1 /\ decoder_thread = 1 /\ stream = 0

\* C38, the other case reached: a 'play a.mp3' given while nothing played is
\* still in load_track, the new stream is started and its callback is
\* running on a ring buffer that holds a sample: it writes silence.
C38_WitnessSilentWhileLoading ==
    /\ PlayLoading /\ mpc = "lt_assign"
    /\ ~core.properties["playing"].value
    /\ cb.pc = "ret" /\ cb.s = decoder_thread /\ cb.s # stream
    /\ ring[cb.s] # <<>>

\* C39: when the 'stop' command has returned, the playing property is
\* false, current_track is "none", the backend is not playing, and no
\* decoder thread of the backend is running.
C39_StopCommandStopsDecoder ==
    ev.op = "stop_cmd" =>
        /\ core.properties["playing"].value = FALSE
        /\ core.properties["current_track"].value = "none"
        /\ ~playing
        /\ AliveThreads = {}

====
